---- MODULE Spec2Model ----
(***************************************************************************)
(* Model of the self-test log parsers of this repository:                  *)
(*   src/log_database_uploader.py      LenovoLogDatabaseUploader           *)
(*   src/process_real_log_data.py      LenovoLogParser                     *)
(*   src/selfTest_logger.py            DiagnosticLogParser (text logs)     *)
(*   src/Json uploader/selfTest_logger.py  DiagnosticLogParser (JSON)      *)
(*                                                                         *)
(* Python values are represented as follows.                               *)
(*   str          a TLA+ string, handled character by character            *)
(*   None         the record None; an optional int x is Some(x)            *)
(*   float        an exact fraction [n |-> numerator, d |-> denominator]   *)
(*   dict         a record                                                 *)
(*   list         a sequence                                               *)
(*   log_content  the sequence of its lines, i.e. log_content.split('\n'); *)
(*                the empty sequence stands for "nothing loaded" (None)    *)
(***************************************************************************)
EXTENDS Integers, Sequences, FiniteSets, TLC

VARIABLES
  file,         \* the document on disk that the parsers are run on
  log_content,  \* self.log_content of the parser object
  filename,     \* self.filename of the parser object
  eval_in,      \* the arguments a battery evaluator is applied to
  call,         \* the last call made and what it returned
  objects,      \* the classes of the parser objects constructed so far,
                \* where one program uses several; the last one is in use
  records,      \* the records parse_all_data has returned, in the order of
                \* the calls, each with the object and the file it was for
  workers,      \* the worker tasks: class, file, position and result of each
  parsers,      \* the parser objects the worker tasks use
  schedule,     \* the steps the worker tasks have taken, in their order
  database,     \* the rows that are committed, the rows the connection
                \* sees in its transaction, and the next id of the sequences
  uploads,      \* the calls of upload_to_database so far: the record
                \* passed, the record after the call, the rows of the
                \* call's statements, and the outcome
  batch         \* the call of a batch driver: the files it selected, the
                \* list results, the file the loop is at, whether it returned

vars ==
  <<file, log_content, filename, eval_in, call, objects, records, workers,
    parsers, schedule, database, uploads, batch>>

\* the variables of the persistence
store == <<database, uploads, batch>>

\* the variables of the worker tasks
tasks == <<workers, parsers, schedule>>

\* the variables beside the parser object and its last call
beside ==
  <<objects, records, workers, parsers, schedule, database, uploads, batch>>

\* the tables whose ids the code reads back with RETURNING
ReturningTables ==
  {"system_info", "mb_api_battery", "mb_api_monitor", "mb_api_logtest"}

\* no connection, no row
NoDatabase ==
  [uploader |-> "none", committed |-> <<>>, session |-> <<>>,
   next_id |-> [table \in ReturningTables |-> 1]]

\* no batch driver called
NoBatch == [driver |-> "none", selected |-> <<>>, results |-> <<>>,
            at |-> 1, returned |-> FALSE]

\* nothing parsed, no worker task
InitBeside ==
  /\ objects = <<>>
  /\ records = <<>>
  /\ workers = <<>>
  /\ parsers = <<>>
  /\ schedule = <<>>
  /\ database = NoDatabase
  /\ uploads = <<>>
  /\ batch = NoBatch

-----------------------------------------------------------------------------
(* Python values *)

None == [none |-> TRUE]

Some(x) == [v |-> x]

\* an exception leaving the call
Raise(exception) == [raised |-> exception]

\* no call made yet
NoCall == [op |-> "none", ret |-> None, section |-> <<>>]

\* no evaluator arguments chosen
NoInput == [health |-> None, cycles |-> None, used |-> FALSE]

\* no document on disk
NoFile == [name |-> "", kind |-> "none", lines |-> <<>>, modules |-> <<>>]

\* float comparison  f >= k  for an integer k
GE(f, k) == f.n >= k * f.d

\* float comparison  f < k  for an integer k
LT(f, k) == f.n < k * f.d

-----------------------------------------------------------------------------
(* Python str operations *)

Char(s, i) == SubSeq(s, i, i)

\* p in s
Contains(s, p) ==
  \E i \in 1..(Len(s) - Len(p) + 1) : SubSeq(s, i, i + Len(p) - 1) = p

\* s.startswith(p)
StartsWith(s, p) == Len(s) >= Len(p) /\ SubSeq(s, 1, Len(p)) = p

\* s.find(p) + 1, or 0 when p does not occur in s
Find(s, p) ==
  LET hits == {i \in 1..(Len(s) - Len(p) + 1) : SubSeq(s, i, i + Len(p) - 1) = p}
  IN IF hits = {} THEN 0 ELSE CHOOSE i \in hits : \A j \in hits : i <= j

IsSpace(c) == c \in {" ", "\t", "\r", "\n", "\f"}

RECURSIVE FirstNonSpace(_, _)
FirstNonSpace(s, i) ==
  IF i > Len(s) THEN i
  ELSE IF IsSpace(Char(s, i)) THEN FirstNonSpace(s, i + 1) ELSE i

RECURSIVE LastNonSpace(_, _)
LastNonSpace(s, i) ==
  IF i < 1 THEN 0
  ELSE IF IsSpace(Char(s, i)) THEN LastNonSpace(s, i - 1) ELSE i

\* s.strip()
Strip(s) ==
  LET lo == FirstNonSpace(s, 1)
      hi == LastNonSpace(s, Len(s))
  IN IF lo > hi THEN "" ELSE SubSeq(s, lo, hi)

DigitChars == <<"0", "1", "2", "3", "4", "5", "6", "7", "8", "9">>

IsDigitChar(c) == \E k \in 1..10 : DigitChars[k] = c

DigitVal(c) == (CHOOSE k \in 1..10 : DigitChars[k] = c) - 1

\* a non-empty run of decimal digits: what \d+ matches and int() accepts
IsDigit(s) == Len(s) > 0 /\ \A i \in 1..Len(s) : IsDigitChar(Char(s, i))

\* characters c that are no decimal digits and have c.isdigit() true
SuperscriptDigits == <<"¹", "²", "³">>

\* s.isdigit()
isdigit(s) ==
  /\ Len(s) > 0
  /\ \A i \in 1..Len(s) :
       \/ IsDigitChar(Char(s, i))
       \/ \E k \in 1..Len(SuperscriptDigits) : SuperscriptDigits[k] = Char(s, i)

\* s.isdigit() holds and int(s) raises ValueError
IntRaises(s) == isdigit(s) /\ ~IsDigit(s)

\* int(s) for a string of digits
RECURSIVE ToInt(_)
ToInt(s) ==
  IF Len(s) = 0 THEN 0
  ELSE 10 * ToInt(SubSeq(s, 1, Len(s) - 1)) + DigitVal(Char(s, Len(s)))

\* int(s): Some(n), or None for the ValueError of a string that is not an
\* optional sign and digits
PyInt(s) ==
  IF IsDigit(s) THEN Some(ToInt(s))
  ELSE IF Len(s) >= 2 /\ Char(s, 1) = "+" /\ IsDigit(SubSeq(s, 2, Len(s)))
  THEN Some(ToInt(SubSeq(s, 2, Len(s))))
  ELSE IF Len(s) >= 2 /\ Char(s, 1) = "-" /\ IsDigit(SubSeq(s, 2, Len(s)))
  THEN Some(0 - ToInt(SubSeq(s, 2, Len(s))))
  ELSE None

\* re.match(r'(\d+)', s): the longest run of digits s begins with ("" = no match)
LeadingDigits(s) ==
  LET stop == {i \in 1..Len(s) : ~IsDigitChar(Char(s, i))}
      n == IF stop = {} THEN Len(s)
           ELSE (CHOOSE i \in stop : \A j \in stop : i <= j) - 1
  IN SubSeq(s, 1, n)

\* f"{f:.1f}" for a non-negative float
Fmt1(f) ==
  LET tenths == (20 * f.n + f.d) \div (2 * f.d)
  IN ToString(tenths \div 10) \o "." \o ToString(tenths % 10)

\* f"{c}" for an optional int
FmtOpt(c) == IF c = None THEN "None" ELSE ToString(c.v)

-----------------------------------------------------------------------------
(* Battery evaluators *)

\* LenovoLogDatabaseUploader.validate_battery
Uploader_validate_battery(health_percentage, cycles) ==
  IF health_percentage = None
  THEN [status |-> "UNKNOWN", message |-> "Insufficient data for validation"]
  ELSE LET health_passed == GE(health_percentage, 80)
           cycles_passed == cycles # None /\ cycles.v < 750
       IN IF health_passed /\ cycles_passed
          THEN [status |-> "GOOD",
                message |-> "Battery health is good (" \o Fmt1(health_percentage)
                            \o "%, " \o FmtOpt(cycles) \o " cycles)"]
          ELSE IF ~health_passed /\ ~cycles_passed
          THEN [status |-> "POOR",
                message |-> "Battery failed: health below 80% ("
                            \o Fmt1(health_percentage)
                            \o "%) and cycles too high (" \o FmtOpt(cycles) \o ")"]
          ELSE IF ~health_passed
          THEN [status |-> "POOR",
                message |-> "Battery failed: health below 80% ("
                            \o Fmt1(health_percentage) \o "%)"]
          ELSE [status |-> "FAIR",
                message |-> "Battery degraded: cycle count too high ("
                            \o FmtOpt(cycles) \o " cycles)"]

\* LenovoLogParser.validate_battery; process_real_data.validate_battery and
\* DiagnosticLogParser._validate_battery_new (JSON) are copies of it
LogParser_validate_battery(health_percentage, cycles) ==
  IF health_percentage = None \/ cycles = None
  THEN [status |-> "UNKNOWN", message |-> "Insufficient data for validation"]
  ELSE IF GE(health_percentage, 80) /\ cycles.v <= 500
  THEN [status |-> "GOOD", message |-> "Battery health is within acceptable range"]
  ELSE IF GE(health_percentage, 70) /\ cycles.v <= 800
  THEN [status |-> "FAIR",
        message |-> "Battery health is fair, consider replacement soon"]
  ELSE [status |-> "POOR",
        message |-> "Battery health is poor, replacement recommended"]

\* '; '.join(messages)
RECURSIVE Join(_)
Join(messages) ==
  IF Len(messages) = 0 THEN ""
  ELSE IF Len(messages) = 1 THEN messages[1]
  ELSE messages[1] \o "; " \o Join(Tail(messages))

\* DiagnosticLogParser._validate_battery (selfTest_logger.py)
SelfTest_validate_battery(health_percentage, cycles) ==
  LET health_failed == health_percentage # None /\ LT(health_percentage, 80)
      cycles_failed == cycles # None /\ cycles.v >= 750
      status == IF health_failed \/ cycles_failed THEN "FAILED" ELSE "PASSED"
      m1 == IF health_percentage # None
            THEN IF health_failed
                 THEN <<"Battery health " \o Fmt1(health_percentage)
                        \o "% is below 80%">>
                 ELSE <<>>
            ELSE <<"Could not calculate battery health percentage">>
      m2 == IF cycles # None
            THEN IF cycles_failed
                 THEN <<"Battery cycles " \o ToString(cycles.v)
                        \o " exceeds limit of 750">>
                 ELSE <<>>
            ELSE <<"Could not determine battery cycle count">>
      messages == m1 \o m2
      final == IF status = "PASSED" /\ messages = <<>>
               THEN <<"Battery validation passed">>
               ELSE messages
  IN [status |-> status, message |-> Join(final)]

-----------------------------------------------------------------------------
(* Text logs: section scan and battery / CPU parsers of the two line-based   *)
(* classes, LenovoLogDatabaseUploader and LenovoLogParser                    *)

\* dict.get(key, default) on an optional entry
Get(entry, default) == IF entry = None THEN default ELSE entry.v

\* extract_field_value
extract_field_value(line) ==
  IF Contains(line, ":")
  THEN Strip(SubSeq(line, Find(line, ":") + 1, Len(line)))
  ELSE ""

\* The loop "for line in lines" that collects the lines of one section:
\* parse_battery with keyword BATTERY, parse_cpu with keyword CPU.
\* The result is the local list (battery_lines, cpu_lines) after the loop.
\* the same loop without the in_section flag: every non-empty line that is
\* not a marker is collected, start marker or not
RECURSIVE ScanSection_NoFlag(_, _, _, _, _)
ScanSection_NoFlag(lines, i, keyword, in_section, section_lines) ==
  IF i > Len(lines) THEN section_lines
  ELSE LET line == Strip(lines[i])
       IN IF Contains(line, "+++ ") /\ Contains(line, keyword)
          THEN ScanSection_NoFlag(lines, i + 1, keyword, TRUE, <<>>)
          ELSE IF Contains(line, "--- " \o keyword)
          THEN section_lines
          ELSE IF line # ""
          THEN ScanSection_NoFlag(lines, i + 1, keyword, in_section,
                                  Append(section_lines, line))
          ELSE ScanSection_NoFlag(lines, i + 1, keyword, in_section,
                                  section_lines)

RECURSIVE ScanSection(_, _, _, _, _)
ScanSection(lines, i, keyword, in_section, section_lines) ==
  IF i > Len(lines) THEN section_lines
  ELSE LET line == Strip(lines[i])
       IN IF Contains(line, "+++ ") /\ Contains(line, keyword)
          THEN ScanSection(lines, i + 1, keyword, TRUE, <<>>)
          ELSE IF Contains(line, "--- " \o keyword)
          THEN section_lines
          ELSE IF in_section /\ line # ""
          THEN ScanSection(lines, i + 1, keyword, in_section,
                           Append(section_lines, line))
          ELSE ScanSection(lines, i + 1, keyword, in_section, section_lines)

battery_lines_of(lines) == ScanSection(lines, 1, "BATTERY", FALSE, <<>>)

cpu_lines_of(lines) == ScanSection(lines, 1, "CPU", FALSE, <<>>)

\* int(s) if s.isdigit() else 0, where int(s) does not raise
IntOrZero(s) == IF isdigit(s) THEN ToInt(s) ELSE 0

\* int(match.group(1)) if match else 0, for match = re.match(r'(\d+)', s)
LeadingIntOrZero(s) ==
  IF LeadingDigits(s) = "" THEN 0 ELSE ToInt(LeadingDigits(s))

NoBatteryData ==
  [manufacturer |-> None, serial_number |-> None, cycles |-> None,
   design_capacity_num |-> None, full_charge_capacity_num |-> None]

\* The loop "for line in battery_lines" of parse_battery: battery_data after
\* the lines i.. have been read; an absent key is None.  The ValueError of
\* int() leaves the loop.
RECURSIVE BatteryData(_, _, _)
BatteryData(battery_lines, i, battery_data) ==
  IF i > Len(battery_lines) THEN battery_data
  ELSE LET line == battery_lines[i]
           value == extract_field_value(line)
       IN IF StartsWith(line, "CYCLE_COUNT:") /\ IntRaises(value)
          THEN Raise("ValueError")
          ELSE
          BatteryData(battery_lines, i + 1,
            IF StartsWith(line, "MANUFACTURER:")
            THEN [battery_data EXCEPT !.manufacturer = Some(value)]
            ELSE IF StartsWith(line, "SERIAL_NUMBER:")
            THEN [battery_data EXCEPT !.serial_number = Some(value)]
            ELSE IF StartsWith(line, "CYCLE_COUNT:")
            THEN [battery_data EXCEPT !.cycles = Some(IntOrZero(value))]
            ELSE IF StartsWith(line, "DESIGN_CAPACITY:")
            THEN [battery_data EXCEPT
                    !.design_capacity_num = Some(LeadingIntOrZero(value))]
            ELSE IF StartsWith(line, "FULL_CHARGE_CAPACITY:")
            THEN [battery_data EXCEPT
                    !.full_charge_capacity_num = Some(LeadingIntOrZero(value))]
            ELSE battery_data)

\* the quotient taken the wrong way round
Health_Inverted(full_charge, design) == [n |-> 100 * design, d |-> full_charge]

\* (full_charge / design) * 100
Health(full_charge, design) == [n |-> 100 * full_charge, d |-> design]

\* "Calculate health percentage" of parse_battery
HealthOf(battery_data) ==
  IF Get(battery_data.design_capacity_num, 0) > 0
     /\ Get(battery_data.full_charge_capacity_num, 0) > 0
  THEN Health(battery_data.full_charge_capacity_num.v,
              battery_data.design_capacity_num.v)
  ELSE None

\* LenovoLogDatabaseUploader.parse_battery
Uploader_parse_battery(content) ==
  IF content = <<>> \/ content = <<"">> THEN None
  ELSE LET battery_lines == battery_lines_of(content)
           battery_data == BatteryData(battery_lines, 1, NoBatteryData)
           health_percentage == HealthOf(battery_data)
           validation ==
             Uploader_validate_battery(health_percentage, battery_data.cycles)
       IN IF battery_lines = <<>> THEN None
          ELSE IF battery_data = Raise("ValueError") THEN battery_data
          ELSE [serial_number |-> Get(battery_data.serial_number, "Unknown"),
                manufacturer |-> Get(battery_data.manufacturer, "Unknown"),
                design_capacity |->
                  ToString(Get(battery_data.design_capacity_num, 0)) \o " mWh",
                full_charge_capacity |->
                  ToString(Get(battery_data.full_charge_capacity_num, 0))
                  \o " mWh",
                cycles |-> Get(battery_data.cycles, 0),
                health_percentage |-> health_percentage,
                validation_status |-> validation.status,
                validation_message |-> validation.message]

\* f"{f:.2f}%" for a non-negative float
Fmt2(f) ==
  LET hundredths == (200 * f.n + f.d) \div (2 * f.d)
      frac == hundredths % 100
  IN ToString(hundredths \div 100) \o "."
     \o (IF frac < 10 THEN "0" ELSE "") \o ToString(frac) \o "%"

\* LenovoLogParser.parse_battery
LogParser_parse_battery(content) ==
  IF content = <<>> \/ content = <<"">> THEN None
  ELSE LET battery_lines == battery_lines_of(content)
           battery_data == BatteryData(battery_lines, 1, NoBatteryData)
           health_percentage == HealthOf(battery_data)
           validation ==
             LogParser_validate_battery(health_percentage, battery_data.cycles)
       IN IF battery_lines = <<>> THEN None
          ELSE IF battery_data = Raise("ValueError") THEN battery_data
          ELSE [serial_number |-> Get(battery_data.serial_number, "Unknown"),
                manufacturer |-> Get(battery_data.manufacturer, "Unknown"),
                design_capacity |->
                  ToString(Get(battery_data.design_capacity_num, 0)) \o " mWh",
                full_charge_capacity |->
                  ToString(Get(battery_data.full_charge_capacity_num, 0))
                  \o " mWh",
                cycles |-> Get(battery_data.cycles, 0),
                health_percentage |->
                  IF health_percentage = None THEN None
                  ELSE Some(Fmt2(health_percentage)),
                validation_status |-> validation.status,
                validation_message |-> validation.message]

NoCpuData ==
  [model |-> None, manufacturer |-> None, cores |-> None, threads |-> None,
   current_speed |-> None, cache_l1 |-> None, cache_l2 |-> None,
   cache_l3 |-> None]

\* The loop "for line in cpu_lines" of parse_cpu; the ValueError of int()
\* leaves the loop
RECURSIVE CpuData(_, _, _)
CpuData(cpu_lines, i, cpu_data) ==
  IF i > Len(cpu_lines) THEN cpu_data
  ELSE LET line == cpu_lines[i]
           value == extract_field_value(line)
       IN IF /\ StartsWith(line, "CPU_CORES:") \/ StartsWith(line, "CPU_THREADS:")
             /\ IntRaises(value)
          THEN Raise("ValueError")
          ELSE
          CpuData(cpu_lines, i + 1,
            IF StartsWith(line, "CPU_MODEL:")
            THEN [cpu_data EXCEPT !.model = Some(value)]
            ELSE IF StartsWith(line, "CPU_VENDOR:")
            THEN [cpu_data EXCEPT !.manufacturer = Some(value)]
            ELSE IF StartsWith(line, "CPU_CORES:")
            THEN [cpu_data EXCEPT !.cores = Some(IntOrZero(value))]
            ELSE IF StartsWith(line, "CPU_THREADS:")
            THEN [cpu_data EXCEPT !.threads = Some(IntOrZero(value))]
            ELSE IF StartsWith(line, "CPU_CURRENT_SPEED:")
            THEN [cpu_data EXCEPT !.current_speed = Some(value)]
            ELSE IF StartsWith(line, "CPU_CACHE_L1:")
            THEN [cpu_data EXCEPT !.cache_l1 = Some(value)]
            ELSE IF StartsWith(line, "CPU_CACHE_L2:")
            THEN [cpu_data EXCEPT !.cache_l2 = Some(value)]
            ELSE IF StartsWith(line, "CPU_CACHE_L3:")
            THEN [cpu_data EXCEPT !.cache_l3 = Some(value)]
            ELSE cpu_data)

\* LenovoLogDatabaseUploader.parse_cpu
Uploader_parse_cpu(content) ==
  IF content = <<>> \/ content = <<"">> THEN None
  ELSE LET cpu_lines == cpu_lines_of(content)
           cpu_data == CpuData(cpu_lines, 1, NoCpuData)
       IN IF cpu_lines = <<>> THEN None
          ELSE IF cpu_data = Raise("ValueError") THEN cpu_data
          ELSE [model |-> Get(cpu_data.model, "Unknown"),
                manufacturer |-> Get(cpu_data.manufacturer, "Unknown"),
                cores |-> Get(cpu_data.cores, 0),
                threads |-> Get(cpu_data.threads, 0),
                current_speed |-> Get(cpu_data.current_speed, "Unknown"),
                cache_l1 |-> Get(cpu_data.cache_l1, "Unknown"),
                cache_l2 |-> Get(cpu_data.cache_l2, "Unknown"),
                cache_l3 |-> Get(cpu_data.cache_l3, "Unknown")]

-----------------------------------------------------------------------------
(* Text logs: the regular-expression parser, DiagnosticLogParser of          *)
(* src/selfTest_logger.py.  It works on the whole content, the lines joined  *)
(* by newlines.                                                              *)

\* '\n'.join(lines): the content that splits into lines
RECURSIVE JoinLines(_)
JoinLines(lines) ==
  IF Len(lines) = 0 THEN ""
  ELSE IF Len(lines) = 1 THEN lines[1]
  ELSE lines[1] \o "\n" \o JoinLines(Tail(lines))

\* the positions at which p occurs in s
Positions(s, p) ==
  {i \in 1..(Len(s) - Len(p) + 1) : SubSeq(s, i, i + Len(p) - 1) = p}

Min(S) == CHOOSE i \in S : \A j \in S : i <= j

Max(S) == CHOOSE i \in S : \A j \in S : i >= j

\* re.search(r'\+\+\+ .+? NAME .+?\n(.+?)\n--- NAME', content, re.DOTALL):
\* group(1), or None when there is no match.  The match is the leftmost one,
\* and each lazy .+? takes the fewest characters that still lead to a match.
section_search(content, name) ==
  LET head == " " \o name \o " "
      S == Positions(content, "+++ ")
      A == Positions(content, head)
      N == Positions(content, "\n")
      M == Positions(content, "\n--- " \o name)
      okN(n) == \E m \in M : m >= n + 2
      okA(a) == \E n \in N : n >= a + Len(head) + 1 /\ okN(n)
      okS(s) == \E a \in A : a >= s + 5 /\ okA(a)
  IN IF ~\E s \in S : okS(s) THEN None
     ELSE LET s0 == Min({s \in S : okS(s)})
              a0 == Min({a \in A : a >= s0 + 5 /\ okA(a)})
              n0 == Min({n \in N : n >= a0 + Len(head) + 1 /\ okN(n)})
              m0 == Min({m \in M : m >= n0 + 2})
          IN Some(SubSeq(content, n0 + 1, m0 - 1))

\* the first position from i on that \s does not match
RECURSIVE SkipSpace(_, _)
SkipSpace(s, i) ==
  IF i > Len(s) THEN i
  ELSE IF IsSpace(Char(s, i)) THEN SkipSpace(s, i + 1) ELSE i

\* the end of the line that position i is on
RECURSIVE LineEnd(_, _)
LineEnd(s, i) ==
  IF i >= Len(s) THEN Len(s)
  ELSE IF Char(s, i + 1) = "\n" THEN i ELSE LineEnd(s, i + 1)

\* _extract_field(text, r'KEY\s*(.+)'): group(1).strip() of the first match,
\* or None.  When only white space follows KEY, \s* gives characters back
\* until (.+) finds one that is not a newline.
_extract_field(text, key) ==
  LET matchAt(p) ==
        LET q == p + Len(key)
            r == SkipSpace(text, q)
            back == {t \in q..Len(text) : Char(text, t) # "\n"}
        IN IF r <= Len(text) THEN Some(Strip(SubSeq(text, r, LineEnd(text, r))))
           ELSE IF back # {} THEN Some("")
           ELSE None
      hits == {p \in Positions(text, key) : matchAt(p) # None}
  IN IF hits = {} THEN None ELSE matchAt(Min(hits))

\* _extract_numeric(text, r'KEY\s*(\d+)'): int(group(1)) of the first match,
\* or None
_extract_numeric(text, key) ==
  LET digitsAt(p) ==
        LeadingDigits(SubSeq(text, SkipSpace(text, p + Len(key)), Len(text)))
      hits == {p \in Positions(text, key) : digitsAt(p) # ""}
  IN IF hits = {} THEN None ELSE Some(ToInt(digitsAt(Min(hits))))

\* DiagnosticLogParser._parse_battery
SelfTest_parse_battery(content) ==
  LET battery_section == section_search(content, "BATTERY QUICK DIAGNOSTIC")
  IN IF battery_section = None THEN None
     ELSE
       LET battery_text == battery_section.v
           design_capacity == _extract_numeric(battery_text, "DESIGN_CAPACITY:")
           full_charge_capacity ==
             _extract_numeric(battery_text, "FULL_CHARGE_CAPACITY:")
           cycles_str == _extract_field(battery_text, "CYCLE_COUNT:")
           cycles == IF cycles_str = None \/ cycles_str = Some("") THEN None
                     ELSE IF PyInt(Strip(cycles_str.v)) = None THEN Some(0)
                     ELSE PyInt(Strip(cycles_str.v))
           battery_health_percentage ==
             IF design_capacity # None /\ design_capacity # Some(0)
                /\ full_charge_capacity # None /\ full_charge_capacity # Some(0)
                /\ design_capacity.v > 0
             THEN Health(full_charge_capacity.v, design_capacity.v)
             ELSE None
           battery_status ==
             SelfTest_validate_battery(battery_health_percentage, cycles)
       IN [serial_number |-> _extract_field(battery_text, "SERIAL_NUMBER:"),
           manufacturer |-> _extract_field(battery_text, "MANUFACTURER:"),
           design_capacity |-> design_capacity,
           full_charge_capacity |-> full_charge_capacity,
           cycles |-> cycles_str,
           cycles_numeric |-> cycles,
           device_name |-> _extract_field(battery_text, "UDI:"),
           health_percentage |-> battery_health_percentage,
           validation_status |-> battery_status.status,
           validation_message |-> battery_status.message]

-----------------------------------------------------------------------------
(* JSON logs: DiagnosticLogParser of src/Json uploader/selfTest_logger.py.   *)
(* A module is [name, diagnostics]; a diagnostic is [properties, resources,  *)
(* tests]; a dict of strings is a function from its keys to its values.      *)

\* d.get(key)
PGet(d, key) == IF key \in DOMAIN d THEN Some(d[key]) ELSE None

\* extract_num of _parse_json_battery
extract_num(val) ==
  IF val = None \/ val = Some("") THEN 0 ELSE LeadingIntOrZero(val.v)

\* the first module called name that has diagnostics: the loop
\* "for module in modules: if module.get('name') == name: ... if diagnostics:"
found_module(modules, name) ==
  LET hits == {i \in 1..Len(modules) :
                 modules[i].name = name /\ modules[i].diagnostics # <<>>}
  IN IF hits = {} THEN None ELSE Some(modules[Min(hits)])

\* DiagnosticLogParser._validate_battery_new
_validate_battery_new(health_percentage, cycles) ==
  LogParser_validate_battery(health_percentage, cycles)

\* DiagnosticLogParser._parse_json_battery
_parse_json_battery(modules) ==
  LET module == found_module(modules, "BATTERY")
  IN IF module = None THEN None
     ELSE
       LET details == module.v.diagnostics[1].properties
           design_capacity_num == extract_num(PGet(details, "DESIGN_CAPACITY"))
           full_charge_capacity_num ==
             extract_num(PGet(details, "FULL_CHARGE_CAPACITY"))
           cycles_num == extract_num(PGet(details, "CYCLE_COUNT"))
           health_percentage ==
             IF design_capacity_num > 0 /\ full_charge_capacity_num > 0
             THEN Health(full_charge_capacity_num, design_capacity_num)
             ELSE None
           validation ==
             _validate_battery_new(health_percentage, Some(cycles_num))
       IN [serial_number |-> PGet(details, "SERIAL_NUMBER"),
           manufacturer |-> PGet(details, "MANUFACTURER"),
           design_capacity |-> design_capacity_num,
           full_charge_capacity |-> full_charge_capacity_num,
           cycles |-> cycles_num,
           health_percentage |-> health_percentage,
           validation_status |-> validation.status,
           validation_message |-> validation.message]

\* re.match(r'([\d.]+)', s): the longest run of digits and dots s begins with
LeadingDigitsDots(s) ==
  LET stop == {i \in 1..Len(s) : ~IsDigitChar(Char(s, i)) /\ Char(s, i) # "."}
      n == IF stop = {} THEN Len(s) ELSE Min(stop) - 1
  IN SubSeq(s, 1, n)

\* float(s) for a run of digits and dots: a fraction, or ValueError
ParseFloat(s) ==
  LET dots == Positions(s, ".")
  IN IF Cardinality(dots) > 1 \/ s = "." THEN Raise("ValueError")
     ELSE IF dots = {} THEN [n |-> ToInt(s), d |-> 1]
     ELSE LET dot == Min(dots)
              frac == SubSeq(s, dot + 1, Len(s))
          IN [n |-> ToInt(SubSeq(s, 1, dot - 1) \o frac), d |-> 10 ^ Len(frac)]

\* [res for res in resources if res.get('name') == 'bank']
RECURSIVE Banks(_)
Banks(resources) ==
  IF resources = <<>> THEN <<>>
  ELSE IF PGet(Head(resources), "name") = Some("bank")
  THEN <<Head(resources)>> \o Banks(Tail(resources))
  ELSE Banks(Tail(resources))

\* DiagnosticLogParser._parse_json_memory
_parse_json_memory(modules) ==
  LET module == found_module(modules, "MEMORY")
  IN IF module = None THEN <<>>
     ELSE
       LET memory_modules == Banks(module.v.diagnostics[1].resources)
           module_count == Len(memory_modules)
           sample_module ==
             IF memory_modules # <<>> THEN memory_modules[1] ELSE <<>>
           module_size_str == Get(PGet(sample_module, "SIZE"), "0 GB")
           size_match == LeadingDigitsDots(module_size_str)
           module_size_gb == ParseFloat(size_match)
           \* int(total_memory_gb * 1024) if total_memory_gb > 0 else 0
           capacity ==
             IF size_match = "" THEN 0
             ELSE (module_size_gb.n * module_count * 1024) \div module_size_gb.d
       IN IF size_match # "" /\ module_size_gb = Raise("ValueError")
          THEN Raise("ValueError")
          ELSE <<[manufacturer |->
                    Get(PGet(sample_module, "MANUFACTURER"), "Unknown"),
                  part_number |->
                    Get(PGet(sample_module, "PART_NUMBER"), "Unknown"),
                  serial_number |-> "Module_Count_" \o ToString(module_count),
                  capacity |-> capacity,
                  device_locator |->
                    "TOTAL_" \o ToString(module_count) \o "_MODULES",
                  bank_locator |->
                    Get(PGet(sample_module, "TYPE"), "Unknown") \o "_MEMORY"]>>

\* _parse_json_memory leaves with the ValueError of float()
json_memory_raises(modules) ==
  LET module == found_module(modules, "MEMORY")
      memory_modules == Banks(module.v.diagnostics[1].resources)
      sample_module == IF memory_modules # <<>> THEN memory_modules[1] ELSE <<>>
      size_match == LeadingDigitsDots(Get(PGet(sample_module, "SIZE"), "0 GB"))
  IN /\ module # None
     /\ size_match # ""
     /\ ParseFloat(size_match) = Raise("ValueError")

\* int(properties.get(key, 0)) if properties.get(key) else None, for a text
\* value: None for a missing or empty value, Raise for the ValueError of int()
json_int_or_none(properties, key) ==
  LET value == PGet(properties, key)
  IN IF value = None \/ value = Some("") THEN None
     ELSE IF PyInt(value.v) = None THEN Raise("ValueError")
     ELSE PyInt(value.v)

\* DiagnosticLogParser._parse_json_cpu
_parse_json_cpu(modules) ==
  LET module == found_module(modules, "CPU")
  IN IF module = None THEN None
     ELSE
       LET properties == module.v.diagnostics[1].properties
           cores == json_int_or_none(properties, "CPU_CORES")
           threads == json_int_or_none(properties, "CPU_THREADS")
       IN IF cores = Raise("ValueError") \/ threads = Raise("ValueError")
          THEN Raise("ValueError")
          ELSE [model |-> PGet(properties, "CPU_MODEL"),
                vendor |-> PGet(properties, "CPU_VENDOR"),
                cores |-> cores,
                threads |-> threads,
                max_speed |-> PGet(properties, "CPU_CURRENT_SPEED"),
                features |-> PGet(properties, "CPU_FEATURES")]

-----------------------------------------------------------------------------
(* Test results: LenovoLogDatabaseUploader.parse_test_results (line based)   *)
(* and DiagnosticLogParser._parse_test_results / _parse_test_summary (regex) *)

\* the end of the run of non-space characters that starts at i
RECURSIVE WordEnd(_, _)
WordEnd(s, i) ==
  IF i >= Len(s) THEN Len(s)
  ELSE IF IsSpace(Char(s, i + 1)) THEN i ELSE WordEnd(s, i + 1)

\* s.split(), the words of s from position i on
RECURSIVE SplitFrom(_, _)
SplitFrom(s, i) ==
  LET lo == FirstNonSpace(s, i)
  IN IF lo > Len(s) THEN <<>>
     ELSE <<SubSeq(s, lo, WordEnd(s, lo))>> \o SplitFrom(s, WordEnd(s, lo) + 1)

Split(s) == SplitFrom(s, 1)

ResultWords == {"PASSED", "FAILED", "NOT APPLICABLE", "SUCCESS"}

\* "for i, part in enumerate(parts)" of parse_test_results: test_name_part and
\* result_part when the loop ends
RECURSIVE FindNameAndResult(_, _, _)
FindNameAndResult(parts, i, test_name_part) ==
  IF i > Len(parts)
  THEN [test_name_part |-> test_name_part, result_part |-> None]
  ELSE IF parts[i] = "STOP" /\ i < Len(parts)
  THEN FindNameAndResult(parts, i + 1, Some(parts[i + 1]))
  ELSE IF parts[i] \in ResultWords
  THEN [test_name_part |-> test_name_part, result_part |-> Some(parts[i])]
  ELSE FindNameAndResult(parts, i + 1, test_name_part)

\* test_results.append(...); total_tests += 1; if passed: passed_tests += 1
AddTest(st, test_name, result, passed) ==
  [st EXCEPT
     !.tests = Append(@, [test_name |-> test_name, result |-> result,
                          passed |-> passed]),
     !.total_tests = @ + 1,
     !.passed_tests = IF passed THEN @ + 1 ELSE @]

\* the loop "for line in lines" of parse_test_results
RECURSIVE TestLoop(_, _, _)
TestLoop(lines, i, st) ==
  IF i > Len(lines) THEN st
  ELSE
    LET line == Strip(lines[i])
        parts == Split(line)
        current_section ==
          IF Contains(line, "+++ ") /\ Len(parts) >= 4 THEN Some(parts[3])
          ELSE st.current_section
        sectioned == [st EXCEPT !.current_section = current_section]
        found == FindNameAndResult(parts, 1, None)
    IN TestLoop(lines, i + 1,
         IF /\ Contains(line, "STOP ")
            /\ \/ Contains(line, "PASSED") \/ Contains(line, "FAILED")
               \/ Contains(line, "NOT APPLICABLE") \/ Contains(line, "SUCCESS")
            /\ Len(parts) >= 4
            /\ found.test_name_part # None
            /\ found.result_part # None
         THEN AddTest(sectioned,
                IF current_section # None
                THEN current_section.v \o " - " \o found.test_name_part.v
                ELSE found.test_name_part.v,
                found.result_part.v,
                found.result_part.v \in {"PASSED", "SUCCESS"})
         ELSE sectioned)

\* "Add battery validation tests based on battery health analysis"
BatteryTests(st, battery_data) ==
  IF battery_data = None THEN st
  ELSE IF battery_data.health_percentage = None THEN st
  ELSE
    LET battery_health_passed == battery_data.validation_status = "GOOD"
        health_percentage_passed == GE(battery_data.health_percentage, 80)
        cycles_passed == battery_data.cycles < 750
        Verdict(passed) == IF passed THEN "PASSED" ELSE "FAILED"
    IN AddTest(
         AddTest(
           AddTest(st, "BATTERY - HEALTH_TEST",
                   Verdict(battery_health_passed), battery_health_passed),
           "BATTERY - HEALTH_PERCENTAGE_TEST",
           Verdict(health_percentage_passed), health_percentage_passed),
         "BATTERY - CYCLE_COUNT_TEST", Verdict(cycles_passed), cycles_passed)

\* LenovoLogDatabaseUploader.parse_test_results
Uploader_parse_test_results(content) ==
  IF content = <<>> \/ content = <<"">> THEN None
  ELSE
    LET scanned == TestLoop(content, 1,
                     [tests |-> <<>>, total_tests |-> 0, passed_tests |-> 0,
                      current_section |-> None])
        st == BatteryTests(scanned, Uploader_parse_battery(content))
    IN IF Uploader_parse_battery(content) = Raise("ValueError")
       THEN Raise("ValueError")
       ELSE
       [tests |-> st.tests,
        total_tests |-> st.total_tests,
        passed_tests |-> st.passed_tests,
        failed_tests |-> st.total_tests - st.passed_tests]

\* p occurs in s at position i
At(s, i, p) == i + Len(p) - 1 <= Len(s) /\ SubSeq(s, i, i + Len(p) - 1) = p

\* \d{8}T\d{6}UTC matches s at position i
IsTimestampAt(s, i) ==
  /\ i + 17 <= Len(s)
  /\ IsDigit(SubSeq(s, i, i + 7))
  /\ Char(s, i + 8) = "T"
  /\ IsDigit(SubSeq(s, i + 9, i + 14))
  /\ SubSeq(s, i + 15, i + 17) = "UTC"

DaysInMonth(year, month) ==
  IF month = 2
  THEN IF year % 4 = 0 /\ (year % 100 # 0 \/ year % 400 = 0) THEN 29 ELSE 28
  ELSE IF month \in {4, 6, 9, 11} THEN 30 ELSE 31

\* datetime.strptime(t, '%Y%m%dT%H%M%SUTC') for t matching \d{8}T\d{6}UTC
strptime(t) ==
  LET year == ToInt(SubSeq(t, 1, 4))
      month == ToInt(SubSeq(t, 5, 6))
      day == ToInt(SubSeq(t, 7, 8))
      hour == ToInt(SubSeq(t, 10, 11))
      minute == ToInt(SubSeq(t, 12, 13))
      second == ToInt(SubSeq(t, 14, 15))
  IN IF /\ year >= 1
        /\ month \in 1..12
        /\ day \in 1..DaysInMonth(year, month)
        /\ hour <= 23 /\ minute <= 59 /\ second <= 59
     THEN [year |-> year, month |-> month, day |-> day,
           hour |-> hour, minute |-> minute, second |-> second]
     ELSE Raise("ValueError")

\* re.findall(r'START TESTS\n(.*?)\nSTOP TESTS', content, re.DOTALL), the
\* matches that start at position from or later
RECURSIVE test_sections(_, _)
test_sections(content, from) ==
  LET starts == {p \in Positions(content, "START TESTS\n") : p >= from}
      stops(p) == {m \in Positions(content, "\nSTOP TESTS") : m >= p + 12}
  IN IF starts = {} THEN <<>>
     ELSE IF stops(Min(starts)) = {} THEN <<>>
     ELSE LET p == Min(starts)
              m == Min(stops(p))
          IN <<SubSeq(content, p + 12, m - 1)>> \o test_sections(content, m + 11)

\* the last position of the run of digits that starts at d, d - 1 if none
RECURSIVE DigitsEnd(_, _)
DigitsEnd(s, d) ==
  IF d > Len(s) THEN d - 1
  ELSE IF IsDigitChar(Char(s, d)) THEN DigitsEnd(s, d + 1) ELSE d - 1

\* (PASSED|FAILED|NOT APPLICABLE) followed by a space at position r, "" if none
StopWord(s, r) ==
  IF At(s, r, "PASSED ") THEN "PASSED"
  ELSE IF At(s, r, "FAILED ") THEN "FAILED"
  ELSE IF At(s, r, "NOT APPLICABLE ") THEN "NOT APPLICABLE"
  ELSE ""

\* '(\d+) S' at position d, the digits ending at n
StopTail(s, word, d, n) ==
  IF word # "" /\ n >= d /\ At(s, n + 1, " S")
  THEN Some([result |-> word, duration |-> SubSeq(s, d, n), end |-> n + 2])
  ELSE None

StopResult(s, word, r) ==
  StopTail(s, word, r + Len(word) + 1, DigitsEnd(s, r + Len(word) + 1))

\* ' STOP name (PASSED|FAILED|NOT APPLICABLE) (\d+) S' matches s right after
\* the timestamp at j: the result, the digits and the last position matched
StopAt(s, j, name) ==
  IF ~ At(s, j + 18, " STOP " \o name \o " ") THEN None
  ELSE StopResult(s, StopWord(s, j + 24 + Len(name) + 1),
                  j + 24 + Len(name) + 1)

\* the positions of section where
\* ' STOP name (PASSED|FAILED|NOT APPLICABLE) (\d+) S' follows a timestamp
stops_for(section, name) ==
  {j \in {p - 18 : p \in Positions(section, " STOP " \o name \o " ")} :
     j >= 1 /\ IsTimestampAt(section, j) /\ StopAt(section, j, name) # None}

\* the end of the name (.+?) that starts at b: the first newline position
\* from e on after which a STOP of the text b..newline follows, 0 if none
RECURSIVE name_end(_, _, _)
name_end(section, b, e) ==
  LET newlines == {n \in Positions(section, "\n") : n >= e}
  IN IF newlines = {} THEN 0
     ELSE LET n == Min(newlines)
              later == {j \in stops_for(section, SubSeq(section, b, n - 1)) :
                          j > n}
          IN IF later # {} THEN n ELSE name_end(section, b, n + 1)

\* the tuple of the match that starts at i, has the name and stops at j
TestTuple(section, i, name, j, stop) ==
  [start |-> SubSeq(section, i, i + 17),
   test_name |-> name,
   stop |-> SubSeq(section, j, j + 17),
   result |-> stop.result,
   duration |-> stop.duration,
   end |-> stop.end]

\* .*? reaches the first STOP of the name after the newline at e
TestMatchStop(section, i, name, j) ==
  Some(TestTuple(section, i, name, j, StopAt(section, j, name).v))

TestMatchNamed(section, i, e, name) ==
  TestMatchStop(section, i, name,
                Min({k \in stops_for(section, name) : k > e}))

\* (.+?) is the shortest text that ends before a newline, e, and has a STOP
TestMatchFrom(section, i, e) ==
  IF e = 0 THEN None
  ELSE TestMatchNamed(section, i, e, SubSeq(section, i + 25, e - 1))

\* the match of
\* r'(\d{8}T\d{6}UTC) START (.+?)\n.*?(\d{8}T\d{6}UTC) STOP \2 (PASSED|FAILED|NOT APPLICABLE) (\d+) S'
\* that starts at position i of section, or None
TestMatchAt(section, i) ==
  IF ~ (IsTimestampAt(section, i) /\ At(section, i + 18, " START "))
  THEN None
  ELSE TestMatchFrom(section, i, name_end(section, i + 25, i + 26))

\* re.findall of that pattern in section, from position from on: the scan
\* tries the start positions from left to right and goes on after a match
RECURSIVE tests_of(_, _)
RECURSIVE tests_try(_, _, _)
tests_try(section, i, match) ==
  IF match = None THEN tests_of(section, i + 1)
  ELSE <<match.v>> \o tests_of(section, match.v.end + 1)

tests_of(section, from) ==
  LET starts == {i \in {p - 18 : p \in Positions(section, " START ")} :
                   i >= from /\ i >= 1}
  IN IF starts = {} THEN <<>>
     ELSE tests_try(section, Min(starts), TestMatchAt(section, Min(starts)))

\* the tuples of all sections, in the order of the two loops
RECURSIVE AllTests(_)
AllTests(sections) ==
  IF sections = <<>> THEN <<>>
  ELSE tests_of(Head(sections), 1) \o AllTests(Tail(sections))

\* the tuples re.findall gives _parse_test_results, section after section
test_tuples(content) == AllTests(test_sections(content, 1))

\* one of the strptime calls of the loop raises ValueError
strptime_raises(tests) ==
  \E k \in 1..Len(tests) :
    \/ strptime(tests[k].start) = Raise("ValueError")
    \/ strptime(tests[k].stop) = Raise("ValueError")

\* the list test_results built from the tuples
test_results_of(tests) ==
  [k \in 1..Len(tests) |->
     [test_name |-> tests[k].test_name,
      start_time |-> strptime(tests[k].start),
      end_time |-> strptime(tests[k].stop),
      result |-> tests[k].result,
      duration |-> ToInt(tests[k].duration)]]

\* _parse_test_results leaves with the ValueError of strptime
parse_test_results_raises(content) == strptime_raises(test_tuples(content))

\* DiagnosticLogParser._parse_test_results, when it returns
SelfTest_parse_test_results(content) == test_results_of(test_tuples(content))

\* re.search(r'\+\+\+ TEST SUMMARY\n(.+?)\n--- TEST SUMMARY', content,
\* re.DOTALL): group(1), or None
summary_search(content) ==
  LET M == Positions(content, "\n--- TEST SUMMARY")
      S == {p \in Positions(content, "+++ TEST SUMMARY\n") :
              \E m \in M : m >= p + 18}
  IN IF S = {} THEN None
     ELSE LET p == Min(S)
              m == Min({k \in M : k >= p + 18})
          IN Some(SubSeq(content, p + 17, m - 1))

\* DiagnosticLogParser._parse_test_summary
SelfTest_parse_test_summary(content) ==
  LET summary_section == summary_search(content)
  IN IF summary_section = None THEN None
     ELSE
       LET summary_text == summary_section.v
       IN [total_tests |-> _extract_numeric(summary_text, "TOTAL_TESTS:"),
           passed_tests |-> _extract_numeric(summary_text, "PASSED_TESTS:"),
           failed_tests |-> _extract_numeric(summary_text, "FAILED_TESTS:"),
           warning_tests |-> _extract_numeric(summary_text, "WARNING_TESTS:"),
           canceled_tests |-> _extract_numeric(summary_text, "CANCELED_TESTS:"),
           not_applicable_tests |->
             _extract_numeric(summary_text, "NOT_APPLICABLE_TESTS:"),
           elapsed_time |-> _extract_field(summary_text, "ELAPSED_TIME:"),
           final_result_code |->
             _extract_field(summary_text, "FINAL_RESULT_CODE:")]

-----------------------------------------------------------------------------
(* Test outcomes of the other parsers: LenovoLogParser.parse_test_results,   *)
(* parse_test_results_from_json and                                          *)
(* DiagnosticLogParser._parse_json_test_results                              *)

\* "for i, part in enumerate(parts)" of LenovoLogParser.parse_test_results
RECURSIVE LogParser_FindNameAndResult(_, _, _)
LogParser_FindNameAndResult(parts, i, test_name_part) ==
  IF i > Len(parts)
  THEN [test_name_part |-> test_name_part, result_part |-> None]
  ELSE IF parts[i] = "STOP" /\ i < Len(parts)
  THEN LogParser_FindNameAndResult(parts, i + 1, Some(parts[i + 1]))
  ELSE IF parts[i] \in {"PASSED", "FAILED", "NOT APPLICABLE"}
  THEN [test_name_part |-> test_name_part, result_part |-> Some(parts[i])]
  ELSE LogParser_FindNameAndResult(parts, i + 1, test_name_part)

\* the same loop with a current_section that is not retained across the
\* lines that follow a marker line
RECURSIVE LogParser_TestLoop_NotRetained(_, _, _)
LogParser_TestLoop_NotRetained(lines, i, st) ==
  IF i > Len(lines) THEN st
  ELSE
    LET line == Strip(lines[i])
        parts == Split(line)
        current_section ==
          IF Contains(line, "+++ ") /\ Len(parts) >= 4 THEN Some(parts[3])
          ELSE None
        sectioned == [st EXCEPT !.current_section = current_section]
        found == LogParser_FindNameAndResult(parts, 1, None)
    IN LogParser_TestLoop_NotRetained(lines, i + 1,
         IF /\ Contains(line, "STOP ")
            /\ \/ Contains(line, "PASSED") \/ Contains(line, "FAILED")
               \/ Contains(line, "NOT APPLICABLE")
            /\ Len(parts) >= 4
            /\ found.test_name_part # None
            /\ found.result_part # None
         THEN AddTest(sectioned,
                IF current_section # None
                THEN current_section.v \o " - " \o found.test_name_part.v
                ELSE found.test_name_part.v,
                found.result_part.v,
                found.result_part.v = "PASSED")
         ELSE sectioned)

\* the loop "for line in lines" of LenovoLogParser.parse_test_results
RECURSIVE LogParser_TestLoop(_, _, _)
LogParser_TestLoop(lines, i, st) ==
  IF i > Len(lines) THEN st
  ELSE
    LET line == Strip(lines[i])
        parts == Split(line)
        current_section ==
          IF Contains(line, "+++ ") /\ Len(parts) >= 4 THEN Some(parts[3])
          ELSE st.current_section
        sectioned == [st EXCEPT !.current_section = current_section]
        found == LogParser_FindNameAndResult(parts, 1, None)
    IN LogParser_TestLoop(lines, i + 1,
         IF /\ Contains(line, "STOP ")
            /\ \/ Contains(line, "PASSED") \/ Contains(line, "FAILED")
               \/ Contains(line, "NOT APPLICABLE")
            /\ Len(parts) >= 4
            /\ found.test_name_part # None
            /\ found.result_part # None
         THEN AddTest(sectioned,
                IF current_section # None
                THEN current_section.v \o " - " \o found.test_name_part.v
                ELSE found.test_name_part.v,
                found.result_part.v,
                found.result_part.v = "PASSED")
         ELSE sectioned)

\* LenovoLogParser.parse_test_results
LogParser_parse_test_results(content) ==
  IF content = <<>> \/ content = <<"">> THEN None
  ELSE
    LET st == LogParser_TestLoop(content, 1,
                [tests |-> <<>>, total_tests |-> 0, passed_tests |-> 0,
                 current_section |-> None])
    IN [tests |-> st.tests,
        total_tests |-> st.total_tests,
        passed_tests |-> st.passed_tests,
        failed_tests |-> st.total_tests - st.passed_tests]

LowerChars == "abcdefghijklmnopqrstuvwxyz"

UpperChars == "ABCDEFGHIJKLMNOPQRSTUVWXYZ"

UpperChar(c) ==
  IF Contains(LowerChars, c) THEN Char(UpperChars, Find(LowerChars, c)) ELSE c

\* s.upper()
RECURSIVE Upper(_)
Upper(s) ==
  IF Len(s) = 0 THEN ""
  ELSE UpperChar(Char(s, 1)) \o Upper(SubSeq(s, 2, Len(s)))

RECURSIVE Concat(_)
Concat(seqs) == IF seqs = <<>> THEN <<>> ELSE Head(seqs) \o Concat(Tail(seqs))

\* the entries the nested loops "for module in modules: for diag in
\* diagnostics: for test in tests" visit, in the order they visit them
json_tests(modules) ==
  Concat([m \in 1..Len(modules) |->
    LET diagnostics == Get(PGet(modules[m], "diagnostics"), <<>>)
    IN Concat([d \in 1..Len(diagnostics) |->
         LET tests == Get(PGet(diagnostics[d], "tests"), <<>>)
         IN [t \in 1..Len(tests) |->
               [module |-> modules[m], test |-> tests[t]]]])])

\* result.upper() in ['SUCCESS', 'PASSED', 'PASS'] without the upper()
json_passed_NoUpper(result) == result \in {"SUCCESS", "PASSED", "PASS"}

\* passed = result.upper() in ['SUCCESS', 'PASSED', 'PASS']
json_passed(result) == Upper(result) \in {"SUCCESS", "PASSED", "PASS"}

\* parse_test_results_from_json
parse_test_results_from_json(modules) ==
  LET entries == json_tests(modules)
      test_results ==
        [k \in 1..Len(entries) |->
           LET result == Get(PGet(entries[k].test, "result"), "UNKNOWN")
           IN [test_name |->
                 Get(PGet(entries[k].module, "name"), "UNKNOWN") \o " - "
                   \o Get(PGet(entries[k].test, "name"), "UNKNOWN"),
               result |-> result,
               passed |-> json_passed(result)]]
      passed_tests ==
        Cardinality({k \in 1..Len(entries) : test_results[k].passed})
  IN [tests |-> test_results,
      total_tests |-> Len(entries),
      passed_tests |-> passed_tests,
      failed_tests |-> Len(entries) - passed_tests]

\* DiagnosticLogParser._parse_json_timestamp: None for a missing or empty
\* string and for the ValueError of strptime(timestamp_str, '%Y%m%dT%H%M%S');
\* the strings of the documents carry two-digit fields or a trailing UTC
_parse_json_timestamp(timestamp_str) ==
  IF timestamp_str = None \/ timestamp_str = Some("") THEN None
  ELSE IF IsTimestampAt(timestamp_str.v \o "UTC", 1)
          /\ Len(timestamp_str.v) = 15
  THEN LET parsed == strptime(timestamp_str.v \o "UTC")
       IN IF parsed = Raise("ValueError") THEN None ELSE Some(parsed)
  ELSE None

\* int(test.get('duration', 0)) if test.get('duration') else 0, or the
\* ValueError of int()
json_duration(test) ==
  LET duration == PGet(test, "duration")
  IN IF duration = None \/ duration = Some("") THEN Some(0)
     ELSE PyInt(duration.v)

\* the int() of one of the durations raises ValueError
json_duration_raises(modules) ==
  \E k \in 1..Len(json_tests(modules)) :
    json_duration(json_tests(modules)[k].test) = None

\* DiagnosticLogParser._parse_json_test_results, when it returns
_parse_json_test_results(modules) ==
  LET entries == json_tests(modules)
  IN [k \in 1..Len(entries) |->
             [component |-> Get(PGet(entries[k].module, "name"), ""),
              test_name |-> PGet(entries[k].test, "name"),
              start_time |->
                _parse_json_timestamp(PGet(entries[k].test, "start_time")),
              end_time |->
                _parse_json_timestamp(PGet(entries[k].test, "finish_time")),
              duration |-> Get(json_duration(entries[k].test), 0),
              status |->
                IF PGet(entries[k].test, "result") = Some("SUCCESS")
                THEN "PASSED" ELSE "FAILED"]]

-----------------------------------------------------------------------------
(* Motherboard: parse_motherboard, the same code in LenovoLogDatabaseUploader *)
(* and LenovoLogParser                                                       *)

motherboard_lines_of(lines) == ScanSection(lines, 1, "MOTHERBOARD", FALSE, <<>>)

\* "First, search entire log for USB controller count": the value of the
\* first line of the log that starts with the label and has isdigit() true,
\* None without such a line
usb_controllers_from_count(lines) ==
  LET hits == {i \in 1..Len(lines) :
                 /\ StartsWith(lines[i], "NUMBER_USB_HOST_CONTROLLERS:")
                 /\ isdigit(extract_field_value(lines[i]))}
  IN IF hits = {} THEN None ELSE Some(extract_field_value(lines[Min(hits)]))

\* "count if count > 0 else 'Unknown'": an integer or the text 'Unknown'
CountOrUnknown(count) ==
  IF count > 0 THEN [count |-> count] ELSE [text |-> "Unknown"]

\* LenovoLogDatabaseUploader.parse_motherboard, LenovoLogParser.parse_motherboard
parse_motherboard(content) ==
  IF content = <<>> \/ content = <<"">> THEN None
  ELSE LET motherboard_lines == motherboard_lines_of(content)
           from_count == usb_controllers_from_count(content)
           section == 1..Len(motherboard_lines)
           pci_lines == {i \in section :
                           Contains(motherboard_lines[i], "PCI_INDEX:")}
           rtc_lines == {i \in section \ pci_lines :
                           StartsWith(motherboard_lines[i], "RTC_PRESENCE:")}
           class_lines == {i \in section :
                             /\ Contains(motherboard_lines[i], "CLASS:")
                             /\ Contains(Upper(motherboard_lines[i]), "USB")}
           usb_controller_count ==
             IF from_count # None /\ ToInt(from_count.v) > 0
             THEN ToInt(from_count.v)
             ELSE Cardinality(class_lines)
       IN IF motherboard_lines = <<>> THEN None
          ELSE IF from_count # None /\ IntRaises(from_count.v)
          THEN Raise("ValueError")
          ELSE [usb_controllers |-> CountOrUnknown(usb_controller_count),
                pci_devices |-> CountOrUnknown(Cardinality(pci_lines)),
                rtc_present |->
                  IF rtc_lines = {} THEN "Unknown"
                  ELSE extract_field_value(motherboard_lines[Max(rtc_lines)])]

\* LenovoLogParser.parse_cpu is the code of LenovoLogDatabaseUploader.parse_cpu
LogParser_parse_cpu(content) == Uploader_parse_cpu(content)

-----------------------------------------------------------------------------
(* Display, memory and storage: parse_display, parse_memory and              *)
(* parse_storage, the same code in LenovoLogDatabaseUploader and             *)
(* LenovoLogParser                                                           *)

\* s.replace(old, new)
RECURSIVE Replace(_, _, _)
Replace(s, old, new) ==
  IF Len(s) < Len(old) \/ Len(old) = 0 THEN s
  ELSE IF SubSeq(s, 1, Len(old)) = old
  THEN new \o Replace(SubSeq(s, Len(old) + 1, Len(s)), old, new)
  ELSE Char(s, 1) \o Replace(SubSeq(s, 2, Len(s)), old, new)

\* f"{num / den:.0f}": the quotient rounded to the nearest integer, a tie to
\* the even one
Fmt0(num, den) ==
  LET q == num \div den
      r == num % den
  IN ToString(IF 2 * r > den \/ (2 * r = den /\ q % 2 = 1) THEN q + 1 ELSE q)

\* re.match(r'(\d+)\s*x\s*(\d+)', s): Some(<<width, height>>) or None
resolution_match(s) ==
  LET width == LeadingDigits(s)
      after_width == SubSeq(s, Len(width) + 1, Len(s))
      at_x == SubSeq(after_width, FirstNonSpace(after_width, 1), Len(after_width))
      after_x == SubSeq(at_x, 2, Len(at_x))
      height == LeadingDigits(SubSeq(after_x, FirstNonSpace(after_x, 1),
                                     Len(after_x)))
  IN IF width # "" /\ StartsWith(at_x, "x") /\ height # ""
     THEN Some(<<ToInt(width), ToInt(height)>>)
     ELSE None

display_lines_of(lines) == ScanSection(lines, 1, "DISPLAY", FALSE, <<>>)

NoDisplayData ==
  [name |-> None, manufacturer_id |-> None, edid_version |-> None,
   width |-> None, height |-> None]

\* parse_display: for line in display_lines
RECURSIVE DisplayData(_, _, _)
DisplayData(display_lines, i, display_data) ==
  IF i > Len(display_lines) THEN display_data
  ELSE LET line == display_lines[i]
           value == extract_field_value(line)
           match == resolution_match(value)
       IN DisplayData(display_lines, i + 1,
            IF StartsWith(line, "UDI:")
            THEN [display_data EXCEPT !.name = Some(value)]
            ELSE IF StartsWith(line, "MANUFACTURER_ID:")
            THEN [display_data EXCEPT !.manufacturer_id = Some(value)]
            ELSE IF StartsWith(line, "EDID_VERSION:")
            THEN [display_data EXCEPT !.edid_version = Some(value)]
            ELSE IF StartsWith(line, "MAX_RESOLUTION:")
            THEN IF match # None
                 THEN [display_data EXCEPT !.width = Some(match.v[1]),
                                           !.height = Some(match.v[2])]
                 ELSE [display_data EXCEPT !.width = Some(0),
                                           !.height = Some(0)]
            ELSE display_data)

\* parse_display
parse_display(content) ==
  IF content = <<>> \/ content = <<"">> THEN None
  ELSE LET display_lines == display_lines_of(content)
           display_data == DisplayData(display_lines, 1, NoDisplayData)
       IN IF display_lines = <<>> THEN None
          ELSE [name |-> Get(display_data.name, "Unknown"),
                manufacturer_id |-> Get(display_data.manufacturer_id, "Unknown"),
                width |-> Get(display_data.width, 0),
                height |-> Get(display_data.height, 0),
                edid_version |-> Get(display_data.edid_version, "Unknown")]

memory_lines_of(lines) == ScanSection(lines, 1, "MEMORY", FALSE, <<>>)

NoMemoryData ==
  [total_memory |-> None, module_type |-> None, module_manufacturer |-> None,
   module_speed |-> None, module_part_number |-> None, module_size |-> None,
   module_count |-> 0]

\* parse_memory: for line in memory_lines; module_count is kept with the
\* fields
RECURSIVE MemoryData(_, _, _)
MemoryData(memory_lines, i, memory_data) ==
  IF i > Len(memory_lines) THEN memory_data
  ELSE LET line == memory_lines[i]
           value == extract_field_value(line)
           total_mb == Replace(value, " MB", "")
       IN IF StartsWith(line, "TOTAL_PHYSICAL_MEMORY:") /\ IntRaises(total_mb)
          THEN Raise("ValueError")
          ELSE
          MemoryData(memory_lines, i + 1,
            IF StartsWith(line, "TOTAL_PHYSICAL_MEMORY:")
            THEN IF isdigit(total_mb)
                 THEN [memory_data EXCEPT
                         !.total_memory = Some(Fmt0(ToInt(total_mb), 1024) \o " GB")]
                 ELSE memory_data
            ELSE IF StartsWith(line, "TYPE:") /\ memory_data.module_type = None
            THEN [memory_data EXCEPT !.module_type = Some(value)]
            ELSE IF /\ StartsWith(line, "MANUFACTURER:")
                    /\ memory_data.module_manufacturer = None
            THEN [memory_data EXCEPT !.module_manufacturer = Some(value)]
            ELSE IF /\ StartsWith(line, "MEMORY_CURRENT_SPEED:")
                    /\ memory_data.module_speed = None
            THEN [memory_data EXCEPT !.module_speed = Some(value)]
            ELSE IF /\ StartsWith(line, "PART_NUMBER:")
                    /\ memory_data.module_part_number = None
            THEN [memory_data EXCEPT !.module_part_number = Some(value)]
            ELSE IF StartsWith(line, "SIZE:")
            THEN [memory_data EXCEPT
                    !.module_count = @ + 1,
                    !.module_size = IF @ = None THEN Some(value) ELSE @]
            ELSE memory_data)

\* parse_memory
parse_memory(content) ==
  IF content = <<>> \/ content = <<"">> THEN None
  ELSE LET memory_lines == memory_lines_of(content)
           memory_data == MemoryData(memory_lines, 1, NoMemoryData)
       IN IF memory_lines = <<>> THEN None
          ELSE IF memory_data = Raise("ValueError") THEN memory_data
          ELSE [total_memory_gb |-> Get(memory_data.total_memory, "Unknown"),
                module_count |-> memory_data.module_count,
                module_type |-> Get(memory_data.module_type, "Unknown"),
                module_manufacturer |->
                  Get(memory_data.module_manufacturer, "Unknown"),
                module_size_gb |-> Get(memory_data.module_size, "Unknown"),
                module_speed |-> Get(memory_data.module_speed, "Unknown"),
                module_part_number |->
                  Get(memory_data.module_part_number, "Unknown")]

storage_lines_of(lines) == ScanSection(lines, 1, "STORAGE", FALSE, <<>>)

NoStorageData ==
  [model |-> None, serial_number |-> None, manufacturer |-> None,
   protocol |-> None, firmware |-> None, temperature |-> None, size |-> None]

\* (blocks * 512) / (1024 * 1024 * 1024) as a quotient of integers
BlocksPerGB == 2097152

\* parse_storage: for line in storage_lines
RECURSIVE StorageData(_, _, _)
StorageData(storage_lines, i, storage_data) ==
  IF i > Len(storage_lines) THEN storage_data
  ELSE LET line == storage_lines[i]
           value == extract_field_value(line)
           blocks_str == Replace(value, " blocks", "")
       IN IF StartsWith(line, "NUMBER_LOGICAL_BLOCKS:") /\ IntRaises(blocks_str)
          THEN Raise("ValueError")
          ELSE
          StorageData(storage_lines, i + 1,
            IF StartsWith(line, "MODEL_NUMBER:")
            THEN [storage_data EXCEPT !.model = Some(value)]
            ELSE IF StartsWith(line, "SERIAL_NUMBER:")
            THEN [storage_data EXCEPT !.serial_number = Some(value)]
            ELSE IF StartsWith(line, "MANUFACTURER:")
            THEN [storage_data EXCEPT !.manufacturer = Some(value)]
            ELSE IF StartsWith(line, "DEVICE_TYPE:")
            THEN [storage_data EXCEPT !.protocol = Some(value)]
            ELSE IF StartsWith(line, "FIRMWARE_REVISION:")
            THEN [storage_data EXCEPT !.firmware = Some(value)]
            ELSE IF StartsWith(line, "TEMPERATURE:")
            THEN [storage_data EXCEPT !.temperature = Some(value)]
            ELSE IF StartsWith(line, "NUMBER_LOGICAL_BLOCKS:")
            THEN IF isdigit(blocks_str)
                 THEN [storage_data EXCEPT
                         !.size = Some(Fmt0(ToInt(blocks_str), BlocksPerGB) \o " GB")]
                 ELSE storage_data
            ELSE storage_data)

\* parse_storage
parse_storage(content) ==
  IF content = <<>> \/ content = <<"">> THEN None
  ELSE LET storage_lines == storage_lines_of(content)
           storage_data == StorageData(storage_lines, 1, NoStorageData)
       IN IF storage_lines = <<>> THEN None
          ELSE IF storage_data = Raise("ValueError") THEN storage_data
          ELSE [model |-> Get(storage_data.model, "Unknown"),
                serial_number |-> Get(storage_data.serial_number, "Unknown"),
                size |-> Get(storage_data.size, "Unknown"),
                protocol |-> Get(storage_data.protocol, "Unknown"),
                firmware |-> Get(storage_data.firmware, "Unknown"),
                temperature |-> Get(storage_data.temperature, "Unknown")]

-----------------------------------------------------------------------------
(* System information: parse_system_info of LenovoLogDatabaseUploader and    *)
(* of LenovoLogParser                                                        *)

\* s.isalnum(), for ASCII text
IsAlnum(s) ==
  /\ Len(s) > 0
  /\ \A i \in 1..Len(s) :
       \/ IsDigitChar(Char(s, i))
       \/ Contains(LowerChars, Char(s, i))
       \/ Contains(UpperChars, Char(s, i))

\* s.split('-')[0]
BeforeHyphen(s) ==
  IF Contains(s, "-") THEN SubSeq(s, 1, Find(s, "-") - 1) ELSE s

\* the same without the cut to the first 8 characters
serial_from_filename_NoCut(name) ==
  LET potential_serial == BeforeHyphen(name)
  IN IF Len(potential_serial) >= 6 /\ IsAlnum(potential_serial)
     THEN Some(potential_serial)
     ELSE None

\* machine_serial_from_filename
serial_from_filename(name) ==
  LET potential_serial == BeforeHyphen(name)
  IN IF Len(potential_serial) >= 8 /\ IsAlnum(potential_serial)
     THEN Some(SubSeq(potential_serial, 1, 8))
     ELSE IF Len(potential_serial) >= 6 /\ IsAlnum(potential_serial)
     THEN Some(potential_serial)
     ELSE None

HeaderLines == 30

\* lines[:n]
FirstLines(lines, n) == SubSeq(lines, 1, IF Len(lines) < n THEN Len(lines) ELSE n)

\* machine_serial_from_log: the first header line with a serial label whose
\* value is alphanumeric and at least 6 characters long
serial_from_log(lines) ==
  LET header == FirstLines(lines, HeaderLines)
      hits == {i \in 1..Len(header) :
                 /\ \/ StartsWith(Strip(header[i]), "SYSTEM_SERIAL_NUMBER:")
                    \/ StartsWith(Strip(header[i]), "MACHINE_SERIAL_NUMBER:")
                    \/ StartsWith(Strip(header[i]), "COMPUTER_SERIAL_NUMBER:")
                 /\ Len(extract_field_value(Strip(header[i]))) >= 6
                 /\ IsAlnum(extract_field_value(Strip(header[i])))}
  IN IF hits = {} THEN None
     ELSE Some(extract_field_value(Strip(header[Min(hits)])))

\* system_data['machine_serial_number'] of the uploader
Uploader_machine_serial(lines, name) ==
  IF serial_from_filename(name) # None THEN serial_from_filename(name).v
  ELSE IF serial_from_log(lines) # None THEN serial_from_log(lines).v
  ELSE IF Contains(name, "-") THEN BeforeHyphen(name)
  ELSE "Unknown"

\* the value of the last of the first n lines that starts with label, or
\* the default: the loop "for line in lines[:n]" assigns at every such line
header_field(lines, n, label, default) ==
  LET header == FirstLines(lines, n)
      hits == {i \in 1..Len(header) : StartsWith(Strip(header[i]), label)}
  IN IF hits = {} THEN default
     ELSE extract_field_value(Strip(header[Max(hits)]))

\* machine_type_model of the uploader: the field of the companion JSON file
\* when the file exists and can be loaded
Uploader_machine_type_model(sidecar) ==
  IF sidecar.exists /\ sidecar.loads
  THEN Get(PGet(sidecar.data, "machine_type_model"), "N/A")
  ELSE "N/A"

\* re.search(r'(\d{8}T\d{6})UTC', line): group(1), or None
timestamp_search(line) ==
  LET hits == {i \in 1..Len(line) : IsTimestampAt(line, i)}
  IN IF hits = {} THEN None ELSE Some(SubSeq(line, Min(hits), Min(hits) + 14))

Pad2(n) == IF n < 10 THEN "0" \o ToString(n) ELSE ToString(n)

\* t.strftime('%d/%m/%Y %H:%M') for a year of four digits
strftime(t) ==
  Pad2(t.day) \o "/" \o Pad2(t.month) \o "/" \o ToString(t.year)
    \o " " \o Pad2(t.hour) \o ":" \o Pad2(t.minute)

\* the days from 0001-01-01 to the date of t (date.toordinal() - 1)
Ordinal(t) ==
  LET y == t.year - 1
      before == {m \in 1..12 : m < t.month}
      RECURSIVE DaysBefore(_)
      DaysBefore(S) ==
        IF S = {} THEN 0
        ELSE DaysInMonth(t.year, Max(S)) + DaysBefore(S \ {Max(S)})
  IN 365 * y + y \div 4 - y \div 100 + y \div 400
       + DaysBefore(before) + t.day - 1

\* int((finish - start).total_seconds())
elapsed(start, finish) ==
  (Ordinal(finish) - Ordinal(start)) * 86400
    + (finish.hour - start.hour) * 3600 + (finish.minute - start.minute) * 60
    + (finish.second - start.second)

\* datetime.strptime(raw, '%Y%m%dT%H%M%S') for raw matching \d{8}T\d{6}:
\* Some(datetime), or None for its ValueError
parse_raw_time(raw) ==
  IF strptime(raw \o "UTC") = Raise("ValueError") THEN None
  ELSE Some(strptime(raw \o "UTC"))

\* "Find start time": the first line that holds '+++ ', 'UTC' and a timestamp
Uploader_raw_start_time(lines) ==
  LET hits == {i \in 1..Len(lines) :
                 /\ Contains(lines[i], "+++ ") /\ Contains(lines[i], "UTC")
                 /\ timestamp_search(lines[i]) # None}
  IN IF hits = {} THEN None ELSE timestamp_search(lines[Min(hits)])

\* "Find finish time": the last line that holds a timestamp
raw_finish_time(lines) ==
  LET hits == {i \in 1..Len(lines) : timestamp_search(lines[i]) # None}
  IN IF hits = {} THEN None ELSE timestamp_search(lines[Max(hits)])

\* start_time or finish_time: the formatted time, the raw text when strptime
\* fails, 'Unknown' without a timestamp
shown_time(raw) ==
  IF raw = None THEN "Unknown"
  ELSE IF parse_raw_time(raw.v) = None THEN raw.v
  ELSE strftime(parse_raw_time(raw.v).v)

\* start_timestamp or finish_timestamp
timestamp_of(raw) == IF raw = None THEN None ELSE parse_raw_time(raw.v)

\* test_elapsed_seconds without the test of finish_timestamp
elapsed_seconds_of_StartOnly(start_timestamp, finish_timestamp) ==
  IF start_timestamp # None
  THEN Some(elapsed(start_timestamp.v,
                    Get(finish_timestamp, start_timestamp.v)))
  ELSE None

\* test_elapsed_seconds
elapsed_seconds_of(start_timestamp, finish_timestamp) ==
  IF start_timestamp # None /\ finish_timestamp # None
  THEN Some(elapsed(start_timestamp.v, finish_timestamp.v))
  ELSE None

\* LenovoLogDatabaseUploader.parse_system_info
Uploader_parse_system_info(content, name, sidecar) ==
  IF content = <<>> \/ content = <<"">> THEN None
  ELSE
    LET start_timestamp == timestamp_of(Uploader_raw_start_time(content))
        finish_timestamp == timestamp_of(raw_finish_time(content))
    IN [machine_serial_number |-> Uploader_machine_serial(content, name),
        machine_model |->
          header_field(content, HeaderLines, "MACHINE_MODEL:", "Unknown"),
        machine_type_model |-> Uploader_machine_type_model(sidecar),
        bios_version |->
          header_field(content, HeaderLines, "BIOS_VERSION:", "Unknown"),
        application_version |->
          header_field(content, HeaderLines, "APPLICATION_VERSION:",
                       "Unknown"),
        execution_type |->
          header_field(content, HeaderLines, "EXECUTION_TYPE:", "Unknown"),
        start_time |-> shown_time(Uploader_raw_start_time(content)),
        finish_time |-> shown_time(raw_finish_time(content)),
        test_start_timestamp |-> start_timestamp,
        test_finish_timestamp |-> finish_timestamp,
        test_elapsed_seconds |->
          elapsed_seconds_of(start_timestamp, finish_timestamp),
        test_date |->
          IF start_timestamp = None THEN None
          ELSE Some([year |-> start_timestamp.v.year,
                     month |-> start_timestamp.v.month,
                     day |-> start_timestamp.v.day])]

LogParserHeaderLines == 20

\* s[a:b] with a and b counted from 0, as a Python slice
Slice(s, a, b) ==
  IF a >= Len(s) THEN "" ELSE SubSeq(s, a + 1, IF b > Len(s) THEN Len(s) ELSE b)

\* the machine type decoded from an 8S_CODE value
decode_8s(eight_s_code) ==
  IF StartsWith(eight_s_code, "8SSB") THEN Slice(eight_s_code, 4, 8)
  ELSE IF StartsWith(eight_s_code, "8SS") THEN Slice(eight_s_code, 3, 7)
  ELSE Slice(eight_s_code, 0, 4)

\* machine_type_model of LenovoLogParser: the field of the companion JSON
\* file, else the first 8S_CODE line of the log, else 'Unknown'
LogParser_machine_type_model(lines, sidecar) ==
  LET from_json ==
        IF sidecar.exists /\ sidecar.loads
        THEN Get(PGet(sidecar.data, "machine_type_model"), "Unknown")
        ELSE "Unknown"
      hits == {i \in 1..Len(lines) : StartsWith(lines[i], "8S_CODE:")}
      eight_s_code == extract_field_value(lines[Min(hits)])
  IN IF from_json # "Unknown" THEN from_json
     ELSE IF hits = {} THEN "Unknown"
     ELSE IF Len(eight_s_code) > 6 THEN decode_8s(eight_s_code)
     ELSE "Unknown"

\* the loop "for line in lines" over the timestamps of LenovoLogParser: it
\* ends at the first line that holds '--- ' and is not a '+++ ' line with UTC
LogParser_times(lines) ==
  LET IsMarker(i) == Contains(lines[i], "+++ ") /\ Contains(lines[i], "UTC")
      ends == {i \in 1..Len(lines) : ~IsMarker(i) /\ Contains(lines[i], "--- ")}
      last == IF ends = {} THEN Len(lines) ELSE Min(ends)
      starts == {i \in 1..last :
                   IsMarker(i) /\ timestamp_search(lines[i]) # None}
  IN [start_time |->
        IF starts = {} THEN None ELSE timestamp_search(lines[Min(starts)]),
      finish_time |-> IF ends = {} THEN None ELSE raw_finish_time(lines)]

\* LenovoLogParser.parse_system_info
LogParser_parse_system_info(content, sidecar) ==
  IF content = <<>> \/ content = <<"">> THEN None
  ELSE
    [machine_serial_number |->
       header_field(content, LogParserHeaderLines, "SERIAL_NUMBER:",
                    "Unknown"),
     machine_model |->
       header_field(content, LogParserHeaderLines, "MACHINE_MODEL:",
                    "Unknown"),
     machine_type_model |-> LogParser_machine_type_model(content, sidecar),
     bios_version |->
       header_field(content, LogParserHeaderLines, "BIOS_VERSION:", "Unknown"),
     application_version |->
       header_field(content, LogParserHeaderLines, "APPLICATION_VERSION:",
                    "Unknown"),
     execution_type |->
       header_field(content, LogParserHeaderLines, "EXECUTION_TYPE:",
                    "Unknown"),
     start_time |-> Get(LogParser_times(content).start_time, "Unknown"),
     finish_time |-> Get(LogParser_times(content).finish_time, "Unknown")]

\* the elapsed time of DiagnosticLogParser._parse_json_test_summary
json_elapsed_time(iteration) ==
  LET start_time == _parse_json_timestamp(PGet(iteration, "start_time"))
      finish_time == _parse_json_timestamp(PGet(iteration, "finish_time"))
  IN IF start_time # None /\ finish_time # None
     THEN Some(ToString(elapsed(start_time.v, finish_time.v)) \o " S")
     ELSE None

-----------------------------------------------------------------------------
(* Documents *)

MaxLines == 4

StartBattery == "+++ 20250729T105545UTC BATTERY QUICK DIAGNOSTIC 1753786545"

EndBattery == "--- BATTERY QUICK DIAGNOSTIC"

StartCpu == "+++ 20250729T105546UTC CPU QUICK DIAGNOSTIC 1753786546"

EndCpu == "--- CPU QUICK DIAGNOSTIC"

\* lines of the documents that exercise the battery section scan
BatteryScanLines == {StartBattery, EndBattery, "  CYCLE_COUNT: 42 ", ""}

\* lines of the documents that exercise the CPU section scan
CpuScanLines == {StartCpu, EndCpu, "CPU_CORES: 4", ""}

\* field lines of a battery section
BatteryFieldLines ==
  {"MANUFACTURER: SMP", "MANUFACTURER: LGC", "CYCLE_COUNT: 42",
   "DESIGN_CAPACITY: 57000mWh (3691mAh)", "DESIGN_CAPACITY: 0mWh",
   "FULL_CHARGE_CAPACITY: 50270mWh (3059mAh)",
   "FULL_CHARGE_CAPACITY: 30000mWh", "FULL_CHARGE_CAPACITY: unknown"}

\* the non-empty sequences over S of length at most n
SeqsUpTo(S, n) == UNION {[1..k -> S] : k \in 1..n}

TextDocuments ==
  SeqsUpTo(BatteryScanLines, MaxLines)
  \cup SeqsUpTo(CpuScanLines, MaxLines)
  \cup {<<StartBattery>> \o body \o <<EndBattery>> :
          body \in SeqsUpTo(BatteryFieldLines, MaxLines - 1)}

LogFileName == "PF3G44S9-2025-08-07-202945.log"

TextFiles ==
  {[name |-> LogFileName, kind |-> "log", lines |-> d, modules |-> <<>>] :
     d \in TextDocuments}

MaxModules == 2

Diagnostic(properties, resources) ==
  [properties |-> properties, resources |-> resources, tests |-> <<>>]

Bank(size) ==
  [name |-> "bank", SIZE |-> size, MANUFACTURER |-> "Samsung",
   PART_NUMBER |-> "M471A5244CB0", TYPE |-> "DDR4"]

JsonModules ==
  {[name |-> "BATTERY",
    diagnostics |->
      <<Diagnostic([DESIGN_CAPACITY |-> "57000mWh (3691mAh)",
                    FULL_CHARGE_CAPACITY |-> "50270mWh (3059mAh)",
                    CYCLE_COUNT |-> "120", MANUFACTURER |-> "SMP",
                    SERIAL_NUMBER |-> "1234"], <<>>)>>],
   [name |-> "BATTERY",
    diagnostics |-> <<Diagnostic([CYCLE_COUNT |-> "42"], <<>>)>>],
   [name |-> "BATTERY", diagnostics |-> <<>>],
   [name |-> "CPU",
    diagnostics |-> <<Diagnostic([CPU_MODEL |-> "Intel", CPU_CORES |-> "4"],
                                 <<>>)>>],
   [name |-> "MEMORY",
    diagnostics |->
      <<Diagnostic(<<>>, <<Bank("4.000 GB"), [name |-> "cache"],
                           Bank("4.000 GB")>>)>>],
   [name |-> "MEMORY", diagnostics |-> <<Diagnostic(<<>>, <<>>)>>]}

JsonFileName == "PF3G44S9-2025-08-07-202945.json"

\* iterations[0].modules of the JSON documents: up to MaxModules modules
JsonFiles ==
  {[name |-> JsonFileName, kind |-> "json", lines |-> <<>>, modules |-> m] :
     m \in UNION {[1..k -> JsonModules] : k \in 0..MaxModules}}

-----------------------------------------------------------------------------
(* The parsers run on one document *)

\* a path that cannot be opened
MissingFile ==
  [name |-> "PF3G44S9-2025-08-07-202946.log", kind |-> "missing",
   lines |-> <<>>, modules |-> <<>>]

Init ==
  /\ file \in TextFiles \cup JsonFiles \cup {MissingFile}
  /\ log_content = <<>>
  /\ filename = None
  /\ eval_in = NoInput
  /\ call = NoCall
  /\ InitBeside

\* a call that returns ret and leaves the object as it is; section is the
\* section list the call had collected when it returned
Returns(name, ret, section) ==
  /\ call' = [op |-> name, ret |-> ret, section |-> section]
  /\ UNCHANGED <<file, log_content, filename, eval_in>>
  /\ UNCHANGED beside

\* a load that adds what it read to the content the object held, instead
\* of replacing it
load_log_file_at_Appending(f) ==
  /\ f.kind \in {"log", "missing"}
  /\ file' = f
  /\ filename' = Some(f.name)
  /\ log_content' = IF f.kind = "log" THEN log_content \o f.lines
                    ELSE log_content
  /\ call' = [op |-> "load_log_file", ret |-> f.kind = "log",
              section |-> <<>>]
  /\ UNCHANGED eval_in
  /\ UNCHANGED beside

\* load_log_file(file_path) of LenovoLogDatabaseUploader and of
\* LenovoLogParser for the file f at file_path: the name is stored first; a
\* file that can be read decodes to f.lines, a file that cannot be opened
\* leaves log_content as it was and gives False
load_log_file_at(f) ==
  /\ f.kind \in {"log", "missing"}
  /\ file' = f
  /\ filename' = Some(f.name)
  /\ log_content' = IF f.kind = "log" THEN f.lines ELSE log_content
  /\ call' = [op |-> "load_log_file", ret |-> f.kind = "log",
              section |-> <<>>]
  /\ UNCHANGED eval_in
  /\ UNCHANGED beside

load_log_file == load_log_file_at(file)

UploaderParseBattery ==
  Returns("LenovoLogDatabaseUploader.parse_battery",
          Uploader_parse_battery(log_content), battery_lines_of(log_content))

UploaderParseCpu ==
  Returns("LenovoLogDatabaseUploader.parse_cpu",
          Uploader_parse_cpu(log_content), cpu_lines_of(log_content))

LogParserParseBattery ==
  Returns("LenovoLogParser.parse_battery",
          LogParser_parse_battery(log_content), battery_lines_of(log_content))

\* DiagnosticLogParser.parse_log_file reads the file itself and hands the
\* content to _parse_battery
SelfTestParseBattery ==
  /\ file.kind = "log"
  /\ Returns("DiagnosticLogParser._parse_battery",
             SelfTest_parse_battery(JoinLines(file.lines)), <<>>)

\* DiagnosticLogParser.parse_json_file hands iterations[0].modules of the
\* file to _parse_json_battery and to _parse_json_memory
JsonParseBattery ==
  /\ file.kind = "json"
  /\ Returns("DiagnosticLogParser._parse_json_battery",
             _parse_json_battery(file.modules), <<>>)

JsonParseMemory ==
  /\ file.kind = "json"
  /\ Returns("DiagnosticLogParser._parse_json_memory",
             _parse_json_memory(file.modules), <<>>)

Next ==
  \/ load_log_file
  \/ SelfTestParseBattery
  \/ UploaderParseBattery
  \/ UploaderParseCpu
  \/ LogParserParseBattery
  \/ JsonParseBattery
  \/ JsonParseMemory

Spec == Init /\ [][Next]_vars

-----------------------------------------------------------------------------
(* Evaluator inputs *)

DesignSamples == {57000}

FullChargeSamples == {30000, 39900, 42750, 45600, 50270}

CycleSamples == {0, 120, 500, 501, 749, 750, 800, 801, 900}

HealthInputs ==
  {None} \cup {Health(f, d) : f \in FullChargeSamples, d \in DesignSamples}

CycleInputs == {None} \cup {Some(c) : c \in CycleSamples}

InitEval ==
  /\ file = NoFile
  /\ log_content = <<>>
  /\ filename = None
  /\ \E h \in HealthInputs, c \in CycleInputs :
       eval_in = [health |-> h, cycles |-> c, used |-> TRUE]
  /\ call = NoCall
  /\ InitBeside

Evaluate(name, ret) ==
  /\ eval_in.used
  /\ call' = [op |-> name, ret |-> ret, section |-> <<>>]
  /\ UNCHANGED <<file, log_content, filename, eval_in>>
  /\ UNCHANGED beside

EvalUploader ==
  Evaluate("LenovoLogDatabaseUploader.validate_battery",
           Uploader_validate_battery(eval_in.health, eval_in.cycles))

EvalLogParser ==
  Evaluate("LenovoLogParser.validate_battery",
           LogParser_validate_battery(eval_in.health, eval_in.cycles))

EvalSelfTest ==
  Evaluate("DiagnosticLogParser._validate_battery",
           SelfTest_validate_battery(eval_in.health, eval_in.cycles))

NextEval == EvalUploader \/ EvalLogParser \/ EvalSelfTest

SpecEval == InitEval /\ [][NextEval]_vars

-----------------------------------------------------------------------------
(* Documents with tests and a test summary, and the parsers run on them *)

MaxTests == 2

StartTest == "20250729T105545UTC START HEALTH_TEST"

TestLines ==
  {StartTest,
   "20250729T105546UTC STOP HEALTH_TEST PASSED 1 S",
   "20250729T105557UTC STOP HEALTH_TEST FAILED 12 S",
   "20250729T105546UTC STOP HEALTH_TEST NOT APPLICABLE 0 S"}

\* the lines between the start marker of the battery section and its tests
BatteryFields ==
  {<<>>,
   <<"DESIGN_CAPACITY: 57000mWh (3691mAh)",
     "FULL_CHARGE_CAPACITY: 50270mWh (3059mAh)", "CYCLE_COUNT: 900">>}

TestBodies ==
  LET runs == {<<>>} \cup SeqsUpTo(TestLines, MaxTests)
  IN runs \cup {<<"START TESTS">> \o run \o <<"STOP TESTS">> : run \in runs}

SummaryLine(key, count) ==
  IF count = None THEN <<>> ELSE <<key \o ": " \o ToString(count.v)>>

\* no summary, or a summary section that declares some of the three counts
Summaries ==
  {<<>>, <<"+++ TEST SUMMARY", "NOT_APPLICABLE_TESTS: 1", "--- TEST SUMMARY">>}
  \cup
  {<<"+++ TEST SUMMARY">>
     \o SummaryLine("TOTAL_TESTS", total)
     \o SummaryLine("PASSED_TESTS", passed)
     \o SummaryLine("FAILED_TESTS", failed)
     \o <<"--- TEST SUMMARY">> :
     total \in {Some(1), Some(2)},
     passed \in {Some(0), Some(1)},
     failed \in {None, Some(0), Some(1)}}

TestDocuments ==
  {<<StartBattery>> \o fields \o body \o <<EndBattery>> \o summary :
     fields \in BatteryFields, body \in TestBodies, summary \in Summaries}

TestFiles ==
  {[name |-> LogFileName, kind |-> "log", lines |-> d, modules |-> <<>>] :
     d \in TestDocuments}

InitTests ==
  /\ file \in TestFiles
  /\ log_content = <<>>
  /\ filename = None
  /\ eval_in = NoInput
  /\ call = NoCall
  /\ InitBeside

UploaderParseTestResults ==
  Returns("LenovoLogDatabaseUploader.parse_test_results",
          Uploader_parse_test_results(log_content), <<>>)

\* the dict data of parse_log_file when the loop of _parse_test_results has
\* matched tests, or the exception that leaves it
data_of(content, tests) ==
  IF strptime_raises(tests) THEN Raise("ValueError")
  ELSE [battery |-> SelfTest_parse_battery(content),
        test_results |-> test_results_of(tests),
        test_summary |-> SelfTest_parse_test_summary(content)]

\* DiagnosticLogParser.parse_log_file: the entries battery, test_results and
\* test_summary of the dict it returns
parse_log_file(content) == data_of(content, test_tuples(content))

SelfTestParseLogFile ==
  /\ file.kind = "log"
  /\ Returns("DiagnosticLogParser.parse_log_file",
             parse_log_file(JoinLines(file.lines)), <<>>)

NextTests ==
  \/ load_log_file
  \/ UploaderParseTestResults
  \/ SelfTestParseLogFile

SpecTests == InitTests /\ [][NextTests]_vars

-----------------------------------------------------------------------------
(* Documents whose tests sit under several section markers, JSON documents   *)
(* with tests, and the test outcome parsers run on them                      *)

MaxOutcomeLines == 3

SummaryMarker == "+++ TEST SUMMARY"

OutcomeLines ==
  {StartBattery, StartCpu, SummaryMarker,
   "20250729T105546UTC STOP HEALTH_TEST PASSED 1 S",
   "20250729T105540UTC STOP STRESS_TEST FAILED 12 S",
   "20250729T105546UTC STOP HEALTH_TEST NOT APPLICABLE 0 S",
   "20250807T202117UTC STOP INTERNAL_SPEAKER_TEST SUCCESS 15 S",
   "STOP HEALTH_TEST PASSED",
   "CYCLE_COUNT: 42"}

\* a battery section that declares the two capacities and a cycle count
BatterySection ==
  <<StartBattery, "DESIGN_CAPACITY: 57000mWh (3691mAh)",
    "FULL_CHARGE_CAPACITY: 50270mWh (3059mAh)", "CYCLE_COUNT: 900">>

OutcomeDocuments ==
  SeqsUpTo(OutcomeLines, MaxOutcomeLines)
  \cup {<<StartCpu>> \o body : body \in TestBodies}
  \cup {BatterySection \o body : body \in TestBodies}

OutcomeTextFiles ==
  {[name |-> LogFileName, kind |-> "log", lines |-> d, modules |-> <<>>] :
     d \in OutcomeDocuments}

JsonTest(name, result, duration) ==
  [name |-> name, result |-> result, start_time |-> "20250807T202102",
   finish_time |-> "20250807T202117UTC", duration |-> duration]

OutcomeJsonModules ==
  {[name |-> "AUDIO",
    diagnostics |->
      <<[tests |-> <<JsonTest("INTERNAL_SPEAKER_TEST", "SUCCESS", "15"),
                     JsonTest("MICROPHONE_TEST", "FAILED", "")>>]>>],
   [name |-> "BATTERY",
    diagnostics |->
      <<[tests |-> <<JsonTest("HEALTH_TEST", "PASSED", "1")>>],
        [tests |-> <<[name |-> "CHARGE_TEST", result |-> "passed"]>>]>>],
   [name |-> "CPU",
    diagnostics |-> <<[tests |-> <<[name |-> "STRESS_TEST"]>>]>>],
   [name |-> "DISPLAY",
    diagnostics |->
      <<[tests |-> <<JsonTest("PIXEL_TEST", "SUCCESS", "1.5")>>]>>],
   [name |-> "MEMORY", diagnostics |-> <<[properties |-> <<>>]>>],
   [diagnostics |-> <<[tests |-> <<[result |-> "SUCCESS"]>>]>>]}

OutcomeJsonFiles ==
  {[name |-> JsonFileName, kind |-> "json", lines |-> <<>>, modules |-> m] :
     m \in UNION {[1..k -> OutcomeJsonModules] : k \in 0..MaxModules}}

InitOutcomes ==
  /\ file \in OutcomeTextFiles \cup OutcomeJsonFiles
  /\ log_content = <<>>
  /\ filename = None
  /\ eval_in = NoInput
  /\ call = NoCall
  /\ InitBeside

LogParserParseTestResults ==
  Returns("LenovoLogParser.parse_test_results",
          LogParser_parse_test_results(log_content), <<>>)

\* process_json_file hands iterations[0].modules of the file to
\* parse_test_results_from_json
ParseTestResultsFromJson ==
  /\ file.kind = "json"
  /\ Returns("parse_test_results_from_json",
             parse_test_results_from_json(file.modules), <<>>)

JsonParseTestResults ==
  /\ file.kind = "json"
  /\ Returns("DiagnosticLogParser._parse_json_test_results",
             LET test_results == _parse_json_test_results(file.modules)
             IN IF json_duration_raises(file.modules)
                THEN Raise("ValueError")
                ELSE [tests |-> test_results],
             <<>>)

\* DiagnosticLogParser.parse_log_file hands the content of the file to
\* _parse_test_results
SelfTestParseTestResults ==
  /\ file.kind = "log"
  /\ Returns("DiagnosticLogParser._parse_test_results",
             LET tests == test_tuples(JoinLines(file.lines))
             IN IF strptime_raises(tests) THEN Raise("ValueError")
                ELSE [tests |-> test_results_of(tests)],
             <<>>)

NextOutcomes ==
  \/ load_log_file
  \/ UploaderParseTestResults
  \/ LogParserParseTestResults
  \/ SelfTestParseTestResults
  \/ ParseTestResultsFromJson
  \/ JsonParseTestResults

SpecOutcomes == InitOutcomes /\ [][NextOutcomes]_vars

-----------------------------------------------------------------------------
(* Files with a name, header lines, markers with timestamps and a companion  *)
(* JSON file, JSON iterations, and the system information parsers            *)

\* DiagnosticLogParser._parse_json_test_summary
_parse_json_test_summary(iteration) ==
  LET tests == json_tests(Get(PGet(iteration, "modules"), <<>>))
      passed_tests ==
        Cardinality({k \in 1..Len(tests) :
                       PGet(tests[k].test, "result") = Some("SUCCESS")})
  IN [total_tests |-> Len(tests),
      passed_tests |-> passed_tests,
      failed_tests |-> Len(tests) - passed_tests,
      warning_tests |-> 0,
      canceled_tests |-> 0,
      not_applicable_tests |-> 0,
      elapsed_time |-> json_elapsed_time(iteration),
      final_result_code |-> PGet(iteration, "final_result_code")]

MaxSystemLines == 3

NoSidecar == [exists |-> FALSE, loads |-> FALSE, data |-> <<>>]

\* the companion file: absent, not loadable, without the field, with it
Sidecars ==
  {NoSidecar,
   [exists |-> TRUE, loads |-> FALSE, data |-> <<>>],
   [exists |-> TRUE, loads |-> TRUE, data |-> [machine_model |-> "ThinkPad"]],
   [exists |-> TRUE, loads |-> TRUE, data |-> [machine_type_model |-> "21HD"]]}

SystemFileNames ==
  {LogFileName, "PF4CC0-2025-07-30-115447.log", "PF3G44S9X2-2025-08-07.log",
   "PF3G-2025-08-07.log", "PF_3G44S9-2025-08-07.log", "PF3G44S9.log"}

SerialLines ==
  {"SYSTEM_SERIAL_NUMBER: MP2ABCDE", "MACHINE_SERIAL_NUMBER: AB12",
   "SERIAL_NUMBER: R90XYZ12", "BIOS_VERSION: N2XET35W"}

CodeLines ==
  {"8S_CODE: 8SSB21K86206L1HF337001G", "8S_CODE: 8SS5B20W2", "8S_CODE: 8SS5B2",
   "8S_CODE: 5B20W71234", "MACHINE_MODEL: ThinkPad"}

InvalidDateMarker == "+++ 20251345T105545UTC CPU QUICK DIAGNOSTIC 1753786546"

TimeLines ==
  {StartBattery, StartCpu, EndBattery, SummaryMarker, InvalidDateMarker,
   "20250730T000003UTC STOP HEALTH_TEST FAILED 12 S"}

SystemFile(name, lines, sidecar) ==
  [name |-> name, kind |-> "log", lines |-> lines, modules |-> <<>>,
   sidecar |-> sidecar]

SystemTextFiles ==
  {SystemFile(n, d, NoSidecar) :
     n \in SystemFileNames, d \in SeqsUpTo(SerialLines, MaxSystemLines)}
  \cup {SystemFile(LogFileName, d, s) :
          d \in SeqsUpTo(CodeLines, MaxSystemLines), s \in Sidecars}
  \cup {SystemFile(LogFileName, d, NoSidecar) :
          d \in SeqsUpTo(TimeLines, MaxSystemLines)}

JsonTimes == {"20250807T202102", "20250807T235959", "20250808T000004", ""}

\* iterations[0] of the JSON documents
Iterations ==
  {[modules |-> m] : m \in SeqsUpTo(OutcomeJsonModules, 1)}
  \cup {[modules |-> <<>>, start_time |-> s] : s \in JsonTimes}
  \cup {[modules |-> <<>>, finish_time |-> f] : f \in JsonTimes}
  \cup {[modules |-> m, start_time |-> s, finish_time |-> f,
         final_result_code |-> "0"] :
          m \in SeqsUpTo(OutcomeJsonModules, 1),
          s \in JsonTimes, f \in JsonTimes}

SystemJsonFiles ==
  {[name |-> JsonFileName, kind |-> "json", lines |-> <<>>,
    modules |-> i.modules, iteration |-> i] : i \in Iterations}

InitSystem ==
  /\ file \in SystemTextFiles \cup SystemJsonFiles
  /\ log_content = <<>>
  /\ filename = None
  /\ eval_in = NoInput
  /\ call = NoCall
  /\ InitBeside

\* the companion file next to the file that was loaded
sidecar_of(name) == IF name = None THEN NoSidecar ELSE file.sidecar

UploaderParseSystemInfo ==
  /\ file.kind = "log"
  /\ Returns("LenovoLogDatabaseUploader.parse_system_info",
             Uploader_parse_system_info(log_content, Get(filename, ""),
                                        sidecar_of(filename)),
             <<>>)

LogParserParseSystemInfo ==
  /\ file.kind = "log"
  /\ Returns("LenovoLogParser.parse_system_info",
             LogParser_parse_system_info(log_content, sidecar_of(filename)),
             <<>>)

\* DiagnosticLogParser.parse_json_file hands iterations[0] of the file to
\* _parse_json_test_summary
JsonParseTestSummary ==
  /\ file.kind = "json"
  /\ Returns("DiagnosticLogParser._parse_json_test_summary",
             _parse_json_test_summary(file.iteration), <<>>)

NextSystem ==
  \/ load_log_file
  \/ UploaderParseSystemInfo
  \/ LogParserParseSystemInfo
  \/ JsonParseTestSummary

SpecSystem == InitSystem /\ [][NextSystem]_vars

-----------------------------------------------------------------------------
(* Properties of the battery evaluators, checked under SpecEval *)

\* the tier the three-tier policy assigns to a health and a cycle count
PolicyTier(health_percentage, cycles) ==
  IF GE(health_percentage, 80) /\ cycles <= 500 THEN "GOOD"
  ELSE IF GE(health_percentage, 70) /\ cycles <= 800 THEN "FAIR"
  ELSE "POOR"

\* C1: for every non-null health h and every cycle count c, the evaluators of
\* LenovoLogDatabaseUploader and LenovoLogParser return GOOD if h >= 80 and
\* c <= 500, otherwise FAIR if h >= 70 and c <= 800, otherwise POOR.
C1_ThreeTierPolicy ==
  (/\ call.op \in {"LenovoLogDatabaseUploader.validate_battery",
                   "LenovoLogParser.validate_battery"}
   /\ eval_in.health # None
   /\ eval_in.cycles # None)
  => call.ret.status = PolicyTier(eval_in.health, eval_in.cycles.v)

\* C2: every evaluator maps every (health, cycles), null health and absent
\* cycles included, to one of GOOD, FAIR, POOR, UNKNOWN, and to UNKNOWN
\* exactly when the health is null.
C2_TotalUnknownIffNull ==
  call.op \in {"LenovoLogDatabaseUploader.validate_battery",
               "LenovoLogParser.validate_battery",
               "DiagnosticLogParser._validate_battery"}
  => /\ call.ret.status \in {"GOOD", "FAIR", "POOR", "UNKNOWN"}
     /\ call.ret.status = "UNKNOWN" <=> eval_in.health = None

\* the message says that the health is below its floor
NamesHealth(message) == Contains(message, "health below")

\* the message says that the cycle count is above its ceiling
NamesCycles(message) ==
  Contains(message, "cycles too high") \/ Contains(message, "cycle count too high")

\* the health floor and the cycle ceiling that an evaluator applied when it
\* returned status: LenovoLogDatabaseUploader has one pair (80%, below 750),
\* LenovoLogParser one pair per tier (80%, 500 for GOOD; 70%, 800 for FAIR)
HealthBelowFloor(op, status, health_percentage) ==
  IF op = "LenovoLogParser.validate_battery" /\ status = "POOR"
  THEN LT(health_percentage, 70)
  ELSE LT(health_percentage, 80)

CyclesAboveCeiling(op, status, cycles) ==
  IF op = "LenovoLogDatabaseUploader.validate_battery" THEN cycles >= 750
  ELSE IF status = "POOR" THEN cycles > 800
  ELSE cycles > 500

\* C4: whenever an evaluator returns a status other than GOOD or UNKNOWN, its
\* message names exactly the thresholds that were violated: the health floor,
\* the cycle ceiling, or both.
C4_MessageNamesViolations ==
  (/\ call.op \in {"LenovoLogDatabaseUploader.validate_battery",
                   "LenovoLogParser.validate_battery"}
   /\ eval_in.health # None
   /\ eval_in.cycles # None
   /\ call.ret.status \notin {"GOOD", "UNKNOWN"})
  => /\ NamesHealth(call.ret.message)
          <=> HealthBelowFloor(call.op, call.ret.status, eval_in.health)
     /\ NamesCycles(call.ret.message)
          <=> CyclesAboveCeiling(call.op, call.ret.status, eval_in.cycles.v)

-----------------------------------------------------------------------------
(* Properties of the section parsers, checked under Spec *)

\* the text a parser call has read: DiagnosticLogParser reads the file,
\* the line-based classes read the content load_log_file stored
ParsedLines ==
  IF call.op = "DiagnosticLogParser._parse_battery" THEN file.lines
  ELSE log_content

TextBatteryParsers ==
  {"LenovoLogDatabaseUploader.parse_battery", "LenovoLogParser.parse_battery",
   "DiagnosticLogParser._parse_battery"}

\* the numbers the lines of field key declare
Declared(lines, key) ==
  {LeadingIntOrZero(extract_field_value(Strip(lines[i]))) :
     i \in {j \in 1..Len(lines) : StartsWith(Strip(lines[j]), key)}}

\* C3: the health_percentage of a battery record is non-null exactly when the
\* design capacity and the full-charge capacity are both present and
\* positive, and then it equals 100 * full_charge / design.
C3_HealthFromCapacities ==
  (/\ call.op \in {"LenovoLogDatabaseUploader.parse_battery",
                   "DiagnosticLogParser._parse_battery"}
   /\ call.ret # None)
  => LET design == Declared(ParsedLines, "DESIGN_CAPACITY:")
         full_charge == Declared(ParsedLines, "FULL_CHARGE_CAPACITY:")
         health == call.ret.health_percentage
     IN /\ health # None
             => \E d \in design, f \in full_charge :
                  d > 0 /\ f > 0 /\ health.n = 100 * f /\ health.d = d
        /\ health = None
             => ~ /\ design # {} /\ \A d \in design : d > 0
                  /\ full_charge # {} /\ \A f \in full_charge : f > 0

\* a record whose health was computed from 57000 mWh and 50270 mWh
C3_Witness ==
  /\ call.op = "LenovoLogDatabaseUploader.parse_battery"
  /\ call.ret # None
  /\ call.ret.design_capacity = "57000 mWh"
  /\ call.ret.full_charge_capacity = "50270 mWh"
  /\ call.ret.health_percentage = [n |-> 5027000, d |-> 57000]

\* a document that is one battery section with a cycle count of 42 and no
\* capacity field
CycleCountOnly(lines) ==
  /\ Len(lines) >= 3
  /\ lines[1] = StartBattery
  /\ lines[Len(lines)] = EndBattery
  /\ \A i \in 2..(Len(lines) - 1) :
       /\ ~ Contains(lines[i], "CAPACITY")
       /\ ~ Contains(lines[i], "+++ ")
       /\ ~ Contains(lines[i], "--- ")
  /\ \E i \in 2..(Len(lines) - 1) : Strip(lines[i]) = "CYCLE_COUNT: 42"

\* C5: a text document whose battery section has CYCLE_COUNT: 42 and no
\* capacity field yields a record, present, with cycles 42, a null health
\* and status UNKNOWN.
C5_CyclesWithoutCapacity ==
  (call.op \in TextBatteryParsers /\ CycleCountOnly(ParsedLines))
  => /\ call.ret # None
     /\ IF call.op = "DiagnosticLogParser._parse_battery"
        THEN call.ret.cycles_numeric = Some(42)
        ELSE call.ret.cycles = 42
     /\ call.ret.health_percentage = None
     /\ call.ret.validation_status = "UNKNOWN"

\* line i of lines is a start marker / an end marker of the section
IsStart(lines, i, keyword) ==
  Contains(Strip(lines[i]), "+++ ") /\ Contains(Strip(lines[i]), keyword)

IsEnd(lines, i, keyword) ==
  ~ IsStart(lines, i, keyword) /\ Contains(Strip(lines[i]), "--- " \o keyword)

Starts(lines, keyword) == {i \in 1..Len(lines) : IsStart(lines, i, keyword)}

Ends(lines, keyword) == {i \in 1..Len(lines) : IsEnd(lines, i, keyword)}

\* C6: a text document without a start marker of the battery (CPU) section,
\* and a JSON document without a module of the requested name, yield the
\* absent result (None; the empty list for JSON memory) and no exception.
C6_AbsentSection ==
  /\ (call.op \in TextBatteryParsers /\ Starts(ParsedLines, "BATTERY") = {})
       => call.ret = None
  /\ (call.op = "LenovoLogDatabaseUploader.parse_cpu"
        /\ Starts(ParsedLines, "CPU") = {})
       => call.ret = None
  /\ (call.op = "DiagnosticLogParser._parse_json_battery"
        /\ \A i \in 1..Len(file.modules) : file.modules[i].name # "BATTERY")
       => call.ret = None
  /\ (call.op = "DiagnosticLogParser._parse_json_memory"
        /\ \A i \in 1..Len(file.modules) : file.modules[i].name # "MEMORY")
       => call.ret = <<>>

\* a loaded document with a cycle-count line and no start marker, parsed
C6_Witness ==
  /\ call.op = "LenovoLogDatabaseUploader.parse_battery"
  /\ Starts(log_content, "BATTERY") = {}
  /\ \E i \in 1..Len(log_content) : Contains(log_content[i], "CYCLE_COUNT")
  /\ call.ret = None

\* the stripped, non-empty lines strictly between lines s and e
Between(lines, s, e) ==
  LET NonEmpty(line) == line # ""
  IN SelectSeq([i \in 1..(e - s - 1) |-> Strip(lines[s + i])], NonEmpty)

\* the first occurrence of the section: the field lines from the first start
\* marker to the first end marker after it (to the end without one)
FirstOccurrence(lines, keyword) ==
  LET s == Min(Starts(lines, keyword))
      e == Min({i \in Ends(lines, keyword) : i > s} \cup {Len(lines) + 1})
      Field(line) == ~ (Contains(line, "+++ ") /\ Contains(line, keyword))
  IN SelectSeq(Between(lines, s, e), Field)

\* C7: when the battery section occurs more than once, repeated or nested,
\* the parser uses the lines of the first occurrence and no others.
C7_FirstOccurrenceOnly ==
  (/\ call.op \in {"LenovoLogDatabaseUploader.parse_battery",
                   "LenovoLogParser.parse_battery"}
   /\ Cardinality(Starts(log_content, "BATTERY")) >= 2
   /\ \A e \in Ends(log_content, "BATTERY") :
        e > Min(Starts(log_content, "BATTERY")))
  => call.section = FirstOccurrence(log_content, "BATTERY")

\* C8: the located content of a section is exactly the non-empty lines
\* strictly between the first start-marker line and the first end-marker
\* line after it.
C8_LocatedContent ==
  \A keyword \in {"BATTERY", "CPU"} :
    (/\ call.op = (IF keyword = "BATTERY"
                   THEN "LenovoLogDatabaseUploader.parse_battery"
                   ELSE "LenovoLogDatabaseUploader.parse_cpu")
     /\ Starts(log_content, keyword) # {}
     /\ \E e \in Ends(log_content, keyword) :
          e > Min(Starts(log_content, keyword)))
    => LET s == Min(Starts(log_content, keyword))
           e == Min({i \in Ends(log_content, keyword) : i > s})
       IN call.section = Between(log_content, s, e)

\* C9: when several lines of the battery section begin with MANUFACTURER:,
\* the manufacturer of the record is the trimmed remainder of the first.
C9_FirstFieldLineWins ==
  (/\ call.op = "LenovoLogDatabaseUploader.parse_battery"
   /\ call.ret # None
   /\ \E i \in 1..Len(call.section) :
        StartsWith(call.section[i], "MANUFACTURER:"))
  => LET first == Min({i \in 1..Len(call.section) :
                         StartsWith(call.section[i], "MANUFACTURER:")})
     IN call.ret.manufacturer =
          Strip(SubSeq(call.section[first], Len("MANUFACTURER:") + 1,
                       Len(call.section[first])))

-----------------------------------------------------------------------------
(* Properties of the test results, checked under SpecTests *)

\* C10: in every format the produced test results satisfy
\* passed_tests + failed_tests = total_tests, and the number of test entries
\* equals total_tests.
C10_CountsAgree ==
  /\ (call.op = "LenovoLogDatabaseUploader.parse_test_results"
        /\ call.ret # None)
       => /\ call.ret.passed_tests + call.ret.failed_tests = call.ret.total_tests
          /\ Len(call.ret.tests) = call.ret.total_tests
  /\ (call.op = "DiagnosticLogParser.parse_log_file"
        /\ call.ret # Raise("ValueError")
        /\ call.ret.test_summary # None)
       => LET summary == call.ret.test_summary
          IN /\ summary.total_tests # None
             /\ summary.passed_tests # None
             /\ summary.failed_tests # None
             /\ summary.passed_tests.v + summary.failed_tests.v
                  = summary.total_tests.v
             /\ Len(call.ret.test_results) = summary.total_tests.v

-----------------------------------------------------------------------------
(* Component records: the battery, CPU and motherboard parsers of the two    *)
(* line-based classes on sections that hold a subset of the fields           *)

MaxRecordLines == 2

StartMotherboard ==
  "+++ 20250729T105547UTC MOTHERBOARD QUICK DIAGNOSTIC 1753786547"

\* field lines of a battery section; the cycle count is digits, a superscript
\* digit or a word
BatteryRecordLines ==
  {"MANUFACTURER: SMP", "SERIAL_NUMBER: 1234", "CYCLE_COUNT: 42",
   "CYCLE_COUNT: ²", "CYCLE_COUNT: n/a",
   "DESIGN_CAPACITY: 57000mWh (3691mAh)",
   "FULL_CHARGE_CAPACITY: 50270mWh (3059mAh)"}

CpuRecordLines ==
  {"CPU_MODEL: Intel(R) Core(TM) i5", "CPU_VENDOR: GenuineIntel",
   "CPU_CORES: 4", "CPU_CORES: ²", "CPU_THREADS: 8", "CPU_THREADS: many",
   "CPU_CURRENT_SPEED: 2400 MHz", "CPU_CACHE_L1: 64 KB",
   "CPU_CACHE_L2: 512 KB", "CPU_CACHE_L3: 8 MB"}

MotherboardRecordLines ==
  {"NUMBER_USB_HOST_CONTROLLERS: 2", "NUMBER_USB_HOST_CONTROLLERS: ²",
   "NUMBER_USB_HOST_CONTROLLERS: 0", "PCI_INDEX: 0",
   "CLASS: Serial bus controller - usb", "RTC_PRESENCE: YES", "BIOS: N1MET"}

\* a section of each kind with one to MaxRecordLines field lines
RecordDocuments ==
  {<<StartBattery>> \o body :
     body \in SeqsUpTo(BatteryRecordLines, MaxRecordLines)}
  \cup {<<StartCpu>> \o body :
          body \in SeqsUpTo(CpuRecordLines, MaxRecordLines)}
  \cup {<<StartMotherboard>> \o body :
          body \in SeqsUpTo(MotherboardRecordLines, MaxRecordLines)}

RecordFiles ==
  {[name |-> LogFileName, kind |-> "log", lines |-> d, modules |-> <<>>] :
     d \in RecordDocuments}

InitRecords ==
  /\ file \in RecordFiles
  /\ log_content = <<>>
  /\ filename = None
  /\ eval_in = NoInput
  /\ call = NoCall
  /\ InitBeside

UploaderParseMotherboard ==
  Returns("LenovoLogDatabaseUploader.parse_motherboard",
          parse_motherboard(log_content), motherboard_lines_of(log_content))

LogParserParseCpu ==
  Returns("LenovoLogParser.parse_cpu",
          LogParser_parse_cpu(log_content), cpu_lines_of(log_content))

LogParserParseMotherboard ==
  Returns("LenovoLogParser.parse_motherboard",
          parse_motherboard(log_content), motherboard_lines_of(log_content))

NextRecords ==
  \/ load_log_file
  \/ UploaderParseBattery
  \/ UploaderParseCpu
  \/ UploaderParseMotherboard
  \/ LogParserParseBattery
  \/ LogParserParseCpu
  \/ LogParserParseMotherboard

SpecRecords == InitRecords /\ [][NextRecords]_vars

-----------------------------------------------------------------------------
(* Numeric fields: the parsers on documents whose numeric fields hold text   *)
(* that is not a number                                                      *)

MaxNumericLines == 2

\* lines of a battery section whose numeric fields are numbers, words, or a
\* superscript digit
NumericBatteryLines ==
  {"CYCLE_COUNT: 42", "CYCLE_COUNT: n/a", "CYCLE_COUNT: ²",
   "DESIGN_CAPACITY: unknown", "DESIGN_CAPACITY: 57000mWh (3691mAh)",
   "FULL_CHARGE_CAPACITY: 50270mWh (3059mAh)"}

NumericTextFiles ==
  {[name |-> LogFileName, kind |-> "log",
    lines |-> <<StartBattery>> \o body \o <<EndBattery>>, modules |-> <<>>] :
     body \in SeqsUpTo(NumericBatteryLines, MaxNumericLines)}

NumericJsonModules ==
  {[name |-> "CPU",
    diagnostics |-> <<Diagnostic([CPU_MODEL |-> "Intel", CPU_CORES |-> "4",
                                  CPU_THREADS |-> "8"], <<>>)>>],
   [name |-> "CPU",
    diagnostics |-> <<Diagnostic([CPU_MODEL |-> "Intel",
                                  CPU_CORES |-> "four"], <<>>)>>],
   [name |-> "CPU",
    diagnostics |-> <<Diagnostic([CPU_CORES |-> "",
                                  CPU_THREADS |-> "8 threads"], <<>>)>>],
   [name |-> "CPU",
    diagnostics |-> <<Diagnostic([CPU_MODEL |-> "Intel"], <<>>)>>],
   [name |-> "MEMORY",
    diagnostics |-> <<Diagnostic(<<>>, <<Bank("4.000 GB")>>)>>],
   [name |-> "MEMORY",
    diagnostics |-> <<Diagnostic(<<>>, <<Bank("1.2.3 GB")>>)>>],
   [name |-> "MEMORY",
    diagnostics |-> <<Diagnostic(<<>>, <<Bank("n/a")>>)>>],
   [name |-> "BATTERY",
    diagnostics |->
      <<Diagnostic([DESIGN_CAPACITY |-> "unknown", CYCLE_COUNT |-> "n/a"],
                   <<>>)>>]}

NumericJsonFiles ==
  {[name |-> JsonFileName, kind |-> "json", lines |-> <<>>, modules |-> m] :
     m \in UNION {[1..k -> NumericJsonModules] : k \in 0..MaxModules}}

InitNumeric ==
  /\ file \in NumericTextFiles \cup NumericJsonFiles
  /\ log_content = <<>>
  /\ filename = None
  /\ eval_in = NoInput
  /\ call = NoCall
  /\ InitBeside

\* DiagnosticLogParser.parse_json_file hands iterations[0].modules of the
\* file to _parse_json_cpu
JsonParseCpu ==
  /\ file.kind = "json"
  /\ Returns("DiagnosticLogParser._parse_json_cpu",
             _parse_json_cpu(file.modules), <<>>)

\* DiagnosticLogParser.parse_json_file hands the modules to
\* _parse_json_memory; the list it returns is held in a record
JsonParseMemoryList ==
  /\ file.kind = "json"
  /\ Returns("DiagnosticLogParser._parse_json_memory",
             IF json_memory_raises(file.modules) THEN Raise("ValueError")
             ELSE [records |-> _parse_json_memory(file.modules)],
             <<>>)

NextNumeric ==
  \/ load_log_file
  \/ UploaderParseBattery
  \/ LogParserParseBattery
  \/ SelfTestParseBattery
  \/ JsonParseBattery
  \/ JsonParseCpu
  \/ JsonParseMemoryList

SpecNumeric == InitNumeric /\ [][NextNumeric]_vars

-----------------------------------------------------------------------------
(* Synthetic battery tests: LenovoLogDatabaseUploader.parse_test_results on  *)
(* battery sections that declare any subset of capacities and cycle count    *)

MaxSyntheticTests == 1

DesignLines ==
  {<<>>, <<"DESIGN_CAPACITY: 57000mWh (3691mAh)">>, <<"DESIGN_CAPACITY: 0mWh">>}

FullChargeLines ==
  {<<>>, <<"FULL_CHARGE_CAPACITY: 50270mWh (3059mAh)">>,
   <<"FULL_CHARGE_CAPACITY: 39900mWh">>}

CycleLines ==
  {<<>>, <<"CYCLE_COUNT: 42">>, <<"CYCLE_COUNT: 749">>, <<"CYCLE_COUNT: 750">>,
   <<"CYCLE_COUNT: 900">>, <<"CYCLE_COUNT: n/a">>}

SyntheticDocuments ==
  {<<StartBattery>> \o design \o full \o cycle \o tests \o <<EndBattery>> :
     design \in DesignLines, full \in FullChargeLines, cycle \in CycleLines,
     tests \in {<<>>} \cup SeqsUpTo(TestLines, MaxSyntheticTests)}

SyntheticFiles ==
  {[name |-> LogFileName, kind |-> "log", lines |-> d, modules |-> <<>>] :
     d \in SyntheticDocuments}

InitSynthetic ==
  /\ file \in SyntheticFiles
  /\ log_content = <<>>
  /\ filename = None
  /\ eval_in = NoInput
  /\ call = NoCall
  /\ InitBeside

NextSynthetic ==
  \/ load_log_file
  \/ UploaderParseBattery
  \/ UploaderParseTestResults

SpecSynthetic == InitSynthetic /\ [][NextSynthetic]_vars

-----------------------------------------------------------------------------
(* One parser object used for several files: load_log_file called for any   *)
(* file of a directory, parse_all_data, and a new object                     *)

\* the first parser that raised decides: every parser raises ValueError
record_or_raise(record) ==
  IF \E k \in DOMAIN record : record[k] = Raise("ValueError")
  THEN Raise("ValueError")
  ELSE record

\* LenovoLogDatabaseUploader.parse_all_data
Uploader_parse_all_data(content, name, sidecar) ==
  IF content = <<>> \/ content = <<"">> THEN None
  ELSE record_or_raise(
         [system_info |-> Uploader_parse_system_info(content, name, sidecar),
          battery |-> Uploader_parse_battery(content),
          display |-> parse_display(content),
          cpu |-> Uploader_parse_cpu(content),
          memory |-> parse_memory(content),
          storage |-> parse_storage(content),
          motherboard |-> parse_motherboard(content),
          test_results |-> Uploader_parse_test_results(content)])

\* LenovoLogParser.parse_all_data
LogParser_parse_all_data(content, sidecar) ==
  IF content = <<>> \/ content = <<"">> THEN None
  ELSE record_or_raise(
         [system_info |-> LogParser_parse_system_info(content, sidecar),
          battery |-> LogParser_parse_battery(content),
          display |-> parse_display(content),
          cpu |-> LogParser_parse_cpu(content),
          memory |-> parse_memory(content),
          storage |-> parse_storage(content),
          motherboard |-> parse_motherboard(content),
          test_results |-> LogParser_parse_test_results(content)])

\* the files of the directory: two logs, one of them with a companion
\* file, and a name under which there is a companion file and no log
DirectoryFiles ==
  {SystemFile("PF3G44S9-2025-08-07-202945.log",
              <<"SERIAL_NUMBER: R90XYZ12",
                StartBattery,
                "DESIGN_CAPACITY: 57000mWh (3691mAh)",
                "FULL_CHARGE_CAPACITY: 50270mWh (3059mAh)",
                "CYCLE_COUNT: 42",
                EndBattery,
                "+++ 20250801T090000UTC STORAGE QUICK DIAGNOSTIC 1753786549",
                "MODEL_NUMBER: SAMSUNG MZVL2512",
                "NUMBER_LOGICAL_BLOCKS: 1000215216 blocks",
                "--- STORAGE QUICK DIAGNOSTIC">>,
              NoSidecar),
   SystemFile("PF4CC0XY-2025-07-30-115447.log",
              <<"SERIAL_NUMBER: MP2ABCDE",
                "+++ 20250730T115447UTC DISPLAY QUICK DIAGNOSTIC 1753786547",
                "UDI: LEN41B0",
                "MAX_RESOLUTION: 1920 x 1200 pixels",
                "--- DISPLAY QUICK DIAGNOSTIC",
                "+++ 20250730T115448UTC MEMORY QUICK DIAGNOSTIC 1753786548",
                "TOTAL_PHYSICAL_MEMORY: 16000 MB",
                "SIZE: 8 GB",
                "SIZE: 8 GB",
                "20250730T115449UTC STOP QUICK_RANDOM_PATTERN_TEST PASSED 12 S",
                "--- MEMORY QUICK DIAGNOSTIC",
                StartCpu,
                "CPU_CORES: 8",
                EndCpu>>,
              [exists |-> TRUE, loads |-> TRUE,
               data |-> [machine_type_model |-> "21HD"]]),
   [name |-> "PF5DD1ZW-2025-09-01-101010.log", kind |-> "missing",
    lines |-> <<>>, modules |-> <<>>,
    sidecar |-> [exists |-> TRUE, loads |-> TRUE,
                 data |-> [machine_type_model |-> "20XW"]]]}

ParserClasses == {"LenovoLogDatabaseUploader", "LenovoLogParser"}

InitInstance ==
  /\ file = NoFile
  /\ log_content = <<>>
  /\ filename = None
  /\ eval_in = NoInput
  /\ call = NoCall
  /\ objects \in {<<class>> : class \in ParserClasses}
  /\ records = <<>>
  /\ workers = <<>>
  /\ parsers = <<>>
  /\ schedule = <<>>
  /\ database = NoDatabase
  /\ uploads = <<>>
  /\ batch = NoBatch

\* the caller loads any file of the directory into the object
LoadLogFile == \E f \in DirectoryFiles : load_log_file_at(f)

MaxObjects == 2

MaxParses == 2

\* LenovoLogDatabaseUploader() or LenovoLogParser(): a new object, which
\* the caller uses from now on
NewParser ==
  /\ Len(objects) < MaxObjects
  /\ \E class \in ParserClasses : objects' = Append(objects, class)
  /\ file' = NoFile
  /\ log_content' = <<>>
  /\ filename' = None
  /\ call' = [op |-> "__init__", ret |-> None, section |-> <<>>]
  /\ UNCHANGED <<eval_in, records>>
  /\ UNCHANGED tasks
  /\ UNCHANGED store

\* parse_all_data changes nothing in the object; the caller keeps the record
\* it got for the file it named last
ParseAllData(class, ret) ==
  /\ objects[Len(objects)] = class
  /\ Len(records) < MaxParses
  /\ call' = [op |-> class \o ".parse_all_data", ret |-> ret,
              section |-> <<>>]
  /\ records' = Append(records, [op |-> class \o ".parse_all_data",
                                 object |-> Len(objects),
                                 file |-> file, record |-> ret])
  /\ UNCHANGED <<file, log_content, filename, eval_in, objects>>
  /\ UNCHANGED tasks
  /\ UNCHANGED store

UploaderParseAllData ==
  ParseAllData("LenovoLogDatabaseUploader",
               Uploader_parse_all_data(log_content, Get(filename, ""),
                                       sidecar_of(filename)))

LogParserParseAllData ==
  ParseAllData("LenovoLogParser",
               LogParser_parse_all_data(log_content, sidecar_of(filename)))

NextInstance ==
  \/ LoadLogFile
  \/ NewParser
  \/ UploaderParseAllData
  \/ LogParserParseAllData

SpecInstance == InitInstance /\ [][NextInstance]_vars

-----------------------------------------------------------------------------
(* Worker tasks that parse different files at the same time, each with a     *)
(* parser object of its own: a task calls load_log_file and, when that       *)
(* returned True, parse_all_data                                             *)

MaxWorkers == 2

Workers == 1..MaxWorkers

\* a parser object after __init__
NewObject == [file |-> NoFile, filename |-> None, log_content |-> <<>>]

\* the object self after self.load_log_file(file_path) for the file f
after_load(self, f) ==
  [file |-> f,
   filename |-> Some(f.name),
   log_content |-> IF f.kind = "log" THEN f.lines ELSE self.log_content]

\* self.parse_all_data() of an object of the class
parse_all_data_of(class, self) ==
  IF class = "LenovoLogDatabaseUploader"
  THEN Uploader_parse_all_data(self.log_content, Get(self.filename, ""),
                               IF self.filename = None THEN NoSidecar
                               ELSE self.file.sidecar)
  ELSE LogParser_parse_all_data(self.log_content,
                                IF self.filename = None THEN NoSidecar
                                ELSE self.file.sidecar)

\* all tasks working on one object
object_of_Shared(w) == 1

\* the object of worker w: every task constructs its own
object_of(w) == w

\* the tasks get different files of the directory
InitWorkers ==
  /\ file = NoFile
  /\ log_content = <<>>
  /\ filename = None
  /\ eval_in = NoInput
  /\ call = NoCall
  /\ objects = <<>>
  /\ records = <<>>
  /\ \E class \in [Workers -> ParserClasses], files \in [Workers -> DirectoryFiles] :
       /\ \A v, w \in Workers : v # w => files[v] # files[w]
       /\ workers = [w \in Workers |->
                       [class |-> class[w], file |-> files[w], pc |-> "load",
                        ret |-> None]]
  /\ parsers = [o \in Workers |-> NewObject]
  /\ schedule = <<>>
  /\ database = NoDatabase
  /\ uploads = <<>>
  /\ batch = NoBatch

WorkerLoad(w) ==
  /\ workers[w].pc = "load"
  /\ parsers' = [parsers EXCEPT
                   ![object_of(w)] = after_load(@, workers[w].file)]
  /\ workers' = [workers EXCEPT
                   ![w].pc = IF workers[w].file.kind = "log" THEN "parse"
                             ELSE "done"]
  /\ schedule' = Append(schedule, <<w, "load_log_file">>)
  /\ UNCHANGED <<file, log_content, filename, eval_in, call, objects, records>>
  /\ UNCHANGED store

WorkerParse(w) ==
  /\ workers[w].pc = "parse"
  /\ workers' = [workers EXCEPT
                   ![w].pc = "done",
                   ![w].ret = parse_all_data_of(workers[w].class,
                                                parsers[object_of(w)])]
  /\ schedule' = Append(schedule, <<w, "parse_all_data">>)
  /\ UNCHANGED <<file, log_content, filename, eval_in, call, objects, records,
                 parsers>>
  /\ UNCHANGED store

NextWorkers == \E w \in Workers : WorkerLoad(w) \/ WorkerParse(w)

SpecWorkers == InitWorkers /\ [][NextWorkers]_vars

-----------------------------------------------------------------------------
(* JSON logs: the remaining component parsers and parse_json_file of         *)
(* src/Json uploader/selfTest_logger.py.  json_data is the document: a       *)
(* record of its top-level keys, iterations a sequence                       *)

\* s.split(sep): the pieces of s between the occurrences of sep
RECURSIVE SplitBy(_, _)
SplitBy(s, sep) ==
  IF Find(s, sep) = 0 THEN <<s>>
  ELSE <<SubSeq(s, 1, Find(s, sep) - 1)>>
         \o SplitBy(SubSeq(s, Find(s, sep) + Len(sep), Len(s)), sep)

\* width, height = map(int, native_res.split('x')), (0, 0) when that raises
\* ValueError or native_res has no 'x'
native_resolution(native_res) ==
  LET parts == SplitBy(native_res, "x")
  IN IF /\ Len(parts) = 2
        /\ PyInt(Strip(parts[1])) # None
        /\ PyInt(Strip(parts[2])) # None
     THEN <<PyInt(Strip(parts[1])).v, PyInt(Strip(parts[2])).v>>
     ELSE <<0, 0>>

\* DiagnosticLogParser._parse_json_display
_parse_json_display(modules) ==
  LET module == found_module(modules, "DISPLAY")
  IN IF module = None THEN None
     ELSE
       LET diag == module.v.diagnostics[1]
           properties == diag.properties
           udi == PGet(diag, "udi")
           resolution ==
             native_resolution(Get(PGet(properties, "NATIVE_RESOLUTION"), "0x0"))
       IN [name |-> IF udi = None \/ udi = Some("") THEN None
                    ELSE Some(SplitBy(udi.v, " - ")[Len(SplitBy(udi.v, " - "))]),
           serial_number |-> udi,
           manufacturer_id |-> PGet(properties, "MANUFACTURER_ID"),
           manufacturer_code |-> PGet(properties, "MANUFACTURER_ID"),
           width |-> resolution[1],
           height |-> resolution[2],
           max_nits |-> "300.0",
           min_nits |-> "0.5"]

\* DiagnosticLogParser._parse_json_storage
_parse_json_storage(modules) ==
  LET module == found_module(modules, "STORAGE")
  IN IF module = None THEN None
     ELSE
       LET details == module.v.diagnostics[1].properties
           model == PGet(details, "MODEL")
       IN [model |-> model,
           manufacturer |-> IF model = None \/ model = Some("") THEN None
                            ELSE Some(SplitBy(model.v, " ")[1]),
           serial_number |-> PGet(details, "SERIAL"),
           device_type |-> Some(Get(PGet(details, "PROTOCOL"), "Unknown")),
           size |-> PGet(details, "SIZE"),
           firmware_revision |-> PGet(details, "FIRMWARE"),
           temperature |-> PGet(details, "TEMPERATURE")]

\* DiagnosticLogParser._parse_json_motherboard
_parse_json_motherboard(modules) ==
  LET module == found_module(modules, "MOTHERBOARD")
  IN IF module = None THEN None
     ELSE
       LET properties == module.v.diagnostics[1].properties
           usb_controllers ==
             json_int_or_none(properties,
                              "MOTHERBOARD_USB_HOST_CONTROLLER_COUNT")
           pci_devices ==
             json_int_or_none(properties, "MOTHERBOARD_PCI_DEVICE_COUNT")
       IN IF \/ usb_controllers = Raise("ValueError")
             \/ pci_devices = Raise("ValueError")
          THEN Raise("ValueError")
          ELSE [usb_controllers |-> usb_controllers,
                pci_devices |-> pci_devices,
                rtc_presence |-> PGet(properties, "MOTHERBOARD_RTC_PRESENT")]

\* the record of an iteration's modules, or the ValueError of a parser
json_components(iteration) ==
  LET modules == Get(PGet(iteration, "modules"), <<>>)
  IN IF \/ _parse_json_cpu(modules) = Raise("ValueError")
        \/ json_memory_raises(modules)
        \/ _parse_json_motherboard(modules) = Raise("ValueError")
        \/ json_duration_raises(modules)
     THEN Raise("ValueError")
     ELSE [battery |-> _parse_json_battery(modules),
           display |-> _parse_json_display(modules),
           cpu |-> _parse_json_cpu(modules),
           memory |-> _parse_json_memory(modules),
           storage |-> _parse_json_storage(modules),
           motherboard |-> _parse_json_motherboard(modules),
           test_results |-> _parse_json_test_results(modules),
           test_summary |-> _parse_json_test_summary(iteration)]

\* DiagnosticLogParser.parse_json_file for a document that was read:
\* the run record, or the exception it raises again
parse_json_file(json_data) ==
  LET iterations == Get(PGet(json_data, "iterations"), <<>>)
      components ==
        IF iterations # <<>> THEN json_components(iterations[1])
        ELSE [battery |-> None, display |-> None, cpu |-> None,
              memory |-> <<>>, storage |-> None, motherboard |-> None,
              test_results |-> <<>>, test_summary |-> None]
  IN IF components = Raise("ValueError") THEN components
     ELSE [serial_number |-> PGet(json_data, "machine_serial_number"),
           bios_version |-> PGet(json_data, "bios_version"),
           machine_model |-> PGet(json_data, "machine_model"),
           machine_type_model |-> PGet(json_data, "machine_type_model"),
           app_version |-> PGet(json_data, "application_version"),
           execution_type |-> PGet(json_data, "execution_type"),
           execution_start |->
             _parse_json_timestamp(PGet(json_data, "start_time")),
           battery |-> components.battery,
           display |-> components.display,
           cpu |-> components.cpu,
           memory |-> components.memory,
           storage |-> components.storage,
           motherboard |-> components.motherboard,
           test_results |-> components.test_results,
           test_summary |-> components.test_summary]

-----------------------------------------------------------------------------
(* The database behind upload_to_database.  A row is                         *)
(* [table, system_id, key, by, values]: system_id is the id that ties the    *)
(* row to its run (system_id, log_test_id) or the row's own id, key the      *)
(* column of the table's ON CONFLICT clause, by the number of the upload     *)
(* call that wrote the row.  A statement is an insert, a delete by           *)
(* system_id, or an insert that updates the row of the same key.  A          *)
(* connection sees its own changes in session; commit makes them the         *)
(* committed rows, rollback drops them.  The sequences of the ids are not    *)
(* rolled back.                                                              *)

Row(table, system_id, key, by, values) ==
  [table |-> table, system_id |-> system_id, key |-> key, by |-> by,
   values |-> values]

Insert(row) == [op |-> "insert", row |-> row]

Delete(table, system_id) ==
  [op |-> "delete", row |-> Row(table, system_id, None, 0, <<>>)]

Upsert(row) == [op |-> "upsert", row |-> row]

\* the rows of a table that have the key
Conflicts(rows, table, key) ==
  {i \in 1..Len(rows) : rows[i].table = table /\ rows[i].key = key}

\* cursor.execute(statement) on the rows the connection sees
execute(rows, statement) ==
  LET row == statement.row
      kept == {i \in 1..Len(rows) :
                 ~(rows[i].table = row.table /\ rows[i].system_id = row.system_id)}
      hits == Conflicts(rows, row.table, row.key)
  IN IF statement.op = "insert" THEN Append(rows, row)
     ELSE IF statement.op = "delete"
     THEN [k \in 1..Cardinality(kept) |->
             rows[CHOOSE i \in kept :
                    Cardinality({j \in kept : j <= i}) = k]]
     ELSE IF hits = {} THEN Append(rows, row)
     ELSE [rows EXCEPT ![Min(hits)] = [row EXCEPT !.system_id = rows[Min(hits)].system_id]]

\* the rows after the first n statements
RECURSIVE executed(_, _, _)
executed(rows, statements, n) ==
  IF n = 0 THEN rows
  ELSE execute(executed(rows, statements, n - 1), statements[n])

\* a rollback that leaves the changes of the transaction in place
rollback_Kept(db) == db

\* self.conn.rollback()
rollback(db) == [db EXCEPT !.session = db.committed]

\* self.conn.commit()
commit(db) == [db EXCEPT !.committed = db.session]

\* the id the RETURNING clause of an insert into a table with ON CONFLICT
\* gives: the id of the row with the key, or a new one
returned_id(db, table, key) ==
  IF Conflicts(db.session, table, key) = {} THEN db.next_id[table]
  ELSE db.session[Min(Conflicts(db.session, table, key))].system_id

\* the next ids of the sequences after the first n statements: every
\* insert into a table with a sequence draws one
drawn(next_id, statements, n) ==
  [table \in DOMAIN next_id |->
     next_id[table]
       + Cardinality({k \in 1..n : /\ statements[k].op # "delete"
                                   /\ statements[k].row.table = table})]

\* upload_to_database from its first statement: ok of the steps (the
\* statements, then the commit) go through.  When a step raises, the
\* transaction is rolled back and the exception raised again.
transaction(db, statements, ok) ==
  LET n == IF ok > Len(statements) THEN Len(statements) ELSE ok
      worked == [db EXCEPT !.session = executed(db.session, statements, n),
                           !.next_id = drawn(db.next_id, statements, n)]
  IN IF ok > Len(statements) THEN commit(worked) ELSE rollback(worked)

\* the rows the statements write
inserted(statements) ==
  LET writes == SelectSeq(statements, LAMBDA statement : statement.op # "delete")
  IN [k \in 1..Len(writes) |-> writes[k].row]

-----------------------------------------------------------------------------
(* upload_to_database of the JSON uploader,                                  *)
(* src/Json uploader/selfTest_logger.py: one system_info row per serial      *)
(* number, updated in place                                                  *)

\* the name a test result is stored under
json_stored_name(test) ==
  IF test.test_name # None /\ test.test_name # Some("")
  THEN test.test_name.v
  ELSE test.component \o " - "
         \o (IF test.test_name = None THEN "None" ELSE "")

\* the memory entries that are inserted: the first one with a capacity
json_memory_inserted(memory) ==
  LET with_capacity == {i \in 1..Len(memory) : memory[i].capacity # 0}
  IN IF with_capacity = {} THEN <<>> ELSE <<memory[Min(with_capacity)]>>

\* the statements of one call, in the order they are executed
Json_statements(data, system_id, by) ==
  <<Upsert(Row("system_info", system_id, data.serial_number, by,
               [serial_number |-> data.serial_number,
                machine_model |-> data.machine_model,
                machine_type_model |-> data.machine_type_model,
                bios_version |-> data.bios_version,
                app_version |-> data.app_version,
                execution_type |-> data.execution_type,
                start_time |-> None,
                finish_time |-> None]))>>
  \o (IF data.battery = None THEN <<>>
      ELSE <<Delete("battery", system_id),
             Insert(Row("battery", system_id, None, by,
               [serial_number |-> data.battery.serial_number,
                manufacturer |-> data.battery.manufacturer,
                design_capacity |->
                  IF data.battery.design_capacity = 0 THEN None
                  ELSE Some(ToString(data.battery.design_capacity) \o " mWh"),
                full_charge_capacity |->
                  IF data.battery.full_charge_capacity = 0 THEN None
                  ELSE Some(ToString(data.battery.full_charge_capacity)
                              \o " mWh"),
                cycles |-> data.battery.cycles,
                health_percentage |->
                  IF data.battery.health_percentage = None THEN None
                  ELSE Some(Fmt2(data.battery.health_percentage)),
                validation_status |-> data.battery.validation_status,
                validation_message |-> data.battery.validation_message]))>>)
  \o (IF data.display = None THEN <<>>
      ELSE <<Delete("display", system_id),
             Insert(Row("display", system_id, None, by,
               [name |-> data.display.name,
                manufacturer_id |-> data.display.manufacturer_id,
                width |-> data.display.width,
                height |-> data.display.height,
                edid_version |-> None]))>>)
  \o (IF data.cpu = None THEN <<>>
      ELSE <<Delete("cpu", system_id),
             Insert(Row("cpu", system_id, None, by,
               [model |-> data.cpu.model,
                manufacturer |-> None,
                cores |-> data.cpu.cores,
                threads |-> data.cpu.threads,
                current_speed |-> None,
                cache_l1 |-> None,
                cache_l2 |-> None,
                cache_l3 |-> None]))>>)
  \o (IF data.memory = <<>> THEN <<>>
      ELSE <<Delete("memory", system_id)>>
           \o [k \in 1..Len(json_memory_inserted(data.memory)) |->
                 LET memory == json_memory_inserted(data.memory)[k]
                 IN Insert(Row("memory", system_id, None, by,
                      [total_memory |-> Fmt0(memory.capacity, 1024) \o " GB",
                       module_count |-> 1,
                       module_type |-> memory.bank_locator,
                       module_manufacturer |-> memory.manufacturer,
                       module_size |-> ToString(memory.capacity) \o " MB",
                       module_speed |-> "Unknown",
                       module_part_number |-> memory.part_number]))])
  \o (IF data.storage = None THEN <<>>
      ELSE <<Delete("storage", system_id),
             Insert(Row("storage", system_id, None, by,
               [model |-> data.storage.model,
                serial_number |-> data.storage.serial_number,
                size |-> data.storage.size,
                protocol |-> data.storage.device_type,
                firmware |-> data.storage.firmware_revision,
                temperature |-> data.storage.temperature]))>>)
  \o (IF data.motherboard = None THEN <<>>
      ELSE <<Delete("motherboard", system_id),
             Insert(Row("motherboard", system_id, None, by,
               [usb_controllers |-> data.motherboard.usb_controllers,
                pci_devices |-> data.motherboard.pci_devices,
                rtc_present |-> data.motherboard.rtc_presence]))>>)
  \o (IF data.test_results = <<>> THEN <<>>
      ELSE <<Delete("test_results", system_id)>>
           \o [k \in 1..Len(data.test_results) |->
                 Insert(Row("test_results", system_id, None, by,
                   [test_name |-> json_stored_name(data.test_results[k]),
                    result |-> data.test_results[k].status,
                    passed |-> data.test_results[k].status = "PASSED"]))])

\* upload_to_database(data) of the JSON uploader: the database after the
\* call and what the call returns or raises
Json_upload_to_database(db, data, by, ok) ==
  LET system_id == returned_id(db, "system_info", data.serial_number)
      statements == Json_statements(data, system_id, by)
  IN [database |-> transaction(db, statements, ok),
      given |-> data,
      data |-> data,
      rows |-> inserted(statements),
      ret |-> IF ok > Len(statements) THEN Some(system_id)
              ELSE Raise("Exception")]

-----------------------------------------------------------------------------
(* upload_to_database of LenovoLogDatabaseUploader,                          *)
(* src/log_database_uploader.py: a new system_info row for every run         *)

\* datetime.now(): the reading of the clock
Now == [now |-> TRUE]

\* the statements of one call, in the order they are executed
Uploader_statements(data, system_id, by) ==
  LET system_info == data.system_info
  IN
  <<Insert(Row("system_info", system_id, None, by,
               [serial_number |-> system_info.machine_serial_number,
                machine_model |-> system_info.machine_model,
                machine_type_model |-> system_info.machine_type_model,
                bios_version |-> system_info.bios_version,
                app_version |-> system_info.application_version,
                execution_type |-> system_info.execution_type,
                start_time |-> system_info.start_time,
                finish_time |-> system_info.finish_time,
                created_at |->
                  IF system_info.test_start_timestamp = None THEN Now
                  ELSE system_info.test_start_timestamp.v]))>>
  \o (IF data.battery = None THEN <<>>
      ELSE <<Insert(Row("battery", system_id, None, by,
               [data.battery EXCEPT
                  !.health_percentage =
                    IF @ = None THEN None ELSE Some(Fmt2(@))]))>>)
  \o (IF data.display = None THEN <<>>
      ELSE <<Insert(Row("display", system_id, None, by, data.display))>>)
  \o (IF data.cpu = None THEN <<>>
      ELSE <<Insert(Row("cpu", system_id, None, by, data.cpu))>>)
  \o (IF data.memory = None THEN <<>>
      ELSE <<Insert(Row("memory", system_id, None, by,
               [total_memory |-> data.memory.total_memory_gb,
                module_count |-> data.memory.module_count,
                module_type |-> data.memory.module_type,
                module_manufacturer |-> data.memory.module_manufacturer,
                module_size |-> data.memory.module_size_gb,
                module_speed |-> data.memory.module_speed,
                module_part_number |-> data.memory.module_part_number]))>>)
  \o (IF data.storage = None THEN <<>>
      ELSE <<Insert(Row("storage", system_id, None, by, data.storage))>>)
  \o (IF data.motherboard = None THEN <<>>
      ELSE <<Insert(Row("motherboard", system_id, None, by,
                        data.motherboard))>>)
  \o (IF data.test_results = None THEN <<>>
      ELSE [k \in 1..Len(data.test_results.tests) |->
              Insert(Row("test_results", system_id, None, by,
                [test_name |-> data.test_results.tests[k].test_name,
                 result |-> data.test_results.tests[k].result,
                 passed |-> data.test_results.tests[k].passed,
                 test_start_time |-> system_info.test_start_timestamp,
                 test_finish_time |-> system_info.test_finish_timestamp,
                 test_elapsed_seconds |-> system_info.test_elapsed_seconds,
                 test_date |-> system_info.test_date]))])

\* upload_to_database(data) of LenovoLogDatabaseUploader; given is the
\* argument, parsed what parse_all_data of the object returns for data=None
Uploader_upload_to_database(db, given, parsed, by, ok) ==
  LET data == IF given = None THEN parsed ELSE given
      system_id == db.next_id["system_info"]
      statements == Uploader_statements(data, system_id, by)
  IN IF data = None
     THEN [database |-> db, given |-> given, data |-> given, rows |-> <<>>,
           ret |-> None]
     ELSE [database |-> transaction(db, statements, ok),
           given |-> given,
           data |-> given,
           rows |-> inserted(statements),
           ret |-> IF ok > Len(statements) THEN Some(system_id)
                   ELSE Raise("Exception")]

-----------------------------------------------------------------------------
(* upload_to_database of DiagnosticLogParser, src/selfTest_logger.py: one    *)
(* device and one motherboard row per serial number, a new log test for      *)
(* every run                                                                 *)

\* _extract_execution_time: the first \d{8}T\d{6}UTC of the content
_extract_execution_time(content) ==
  LET hits == {i \in 1..Len(content) : IsTimestampAt(content, i)}
  IN IF hits = {} THEN None
     ELSE strptime(SubSeq(content, Min(hits), Min(hits) + 17))

\* parse_log_file for a log without display, cpu, memory, storage and
\* motherboard sections: the whole dict, made of the entries data and of
\* the execution time
record_of(content, data, execution_start) ==
  IF data = Raise("ValueError") \/ execution_start = Raise("ValueError")
  THEN Raise("ValueError")
  ELSE    [serial_number |-> _extract_field(content, "SERIAL_NUMBER:"),
           bios_version |-> _extract_field(content, "BIOS_VERSION:"),
           machine_model |-> _extract_field(content, "MACHINE_MODEL:"),
           app_version |-> _extract_field(content, "APPLICATION_VERSION:"),
           execution_type |-> _extract_field(content, "EXECUTION_TYPE:"),
           execution_start |-> execution_start,
           battery |-> data.battery,
           display |-> None,
           cpu |-> None,
           memory |-> <<>>,
           storage |-> None,
           motherboard |-> None,
           test_results |-> data.test_results,
           test_summary |-> data.test_summary]

SelfTest_record(content) ==
  record_of(content, parse_log_file(content),
            _extract_execution_time(content))

\* "if battery_status == 'FAILED'": the entry appended to data['test_results']
battery_test_result(data) ==
  [test_name |-> "BATTERY_VALIDATION",
   start_time |-> IF data.execution_start = None THEN Now
                  ELSE data.execution_start,
   end_time |-> IF data.execution_start = None THEN Now
                ELSE data.execution_start,
   result |-> "FAILED",
   duration |-> 0,
   detail_message |-> data.battery.validation_message]

\* data after the battery insert of upload_to_database;
\* data['test_results'] is the list _parse_test_results returned
after_battery(data) ==
  IF data.battery # None /\ data.battery.validation_status = "FAILED"
  THEN [data EXCEPT !.test_results = Append(@, battery_test_result(data))]
  ELSE data

\* data['test_summary']['failed_tests'] > 0 raises TypeError: the summary
\* has no FAILED_TESTS count
summary_raises(data) ==
  data.test_summary # None /\ data.test_summary.failed_tests = None

\* all_tests_passed of the log test
all_tests_passed(data) ==
  LET battery_failed ==
        data.battery # None /\ data.battery.validation_status = "FAILED"
      summary_failed ==
        IF data.test_summary = None \/ summary_raises(data) THEN FALSE
        ELSE data.test_summary.failed_tests.v > 0
  IN ~(summary_failed \/ battery_failed)

\* the statements of one call, in the order they are executed; data is the
\* dict as it is after the battery insert
SelfTest_statements(data, ids, by) ==
  <<Upsert(Row("mb_api_device", 0, data.serial_number, by,
               [idSerial |-> data.serial_number,
                partNo |-> data.machine_model])),
    Upsert(Row("mb_api_motherboard", 0, data.serial_number, by,
               [serial_number |-> data.serial_number,
                bios_version |-> data.bios_version,
                manufacturer |-> "Lenovo",
                original_productKey |-> "",
                product_id |-> data.machine_model,
                SKU |-> ""]))>>
  \o (IF data.battery = None THEN <<>>
      ELSE <<Insert(Row("mb_api_battery", ids.battery_id, None, by,
               [serial_number |-> data.battery.serial_number,
                manufacture_name |-> data.battery.manufacturer,
                desing_capacity |-> Get(data.battery.design_capacity, 0),
                full_charge_capacity |->
                  Get(data.battery.full_charge_capacity, 0),
                device_name |-> data.battery.device_name,
                cycles |-> data.battery.cycles]))>>)
  \o (IF data.display = None THEN <<>>
      ELSE <<Insert(Row("mb_api_monitor", ids.monitor_id, None, by,
                        data.display))>>)
  \o <<Insert(Row("mb_api_logtest", ids.log_test_id, None, by,
               [all_tests_passed |-> all_tests_passed(data),
                test_date |-> IF data.execution_start = None THEN Now
                              ELSE data.execution_start,
                motherboard_id |-> data.serial_number,
                mb_type_test |-> data.execution_type,
                report |-> IF data.test_summary = None THEN "{}"
                           ELSE data.test_summary,
                when_started |-> data.execution_start,
                app_ver |-> data.app_version,
                monitor_id |-> IF data.display = None THEN None
                               ELSE Some(ids.monitor_id),
                battery_id |-> IF data.battery = None THEN None
                               ELSE Some(ids.battery_id)]))>>
  \o [k \in 1..Len(data.test_results) |->
        LET test == data.test_results[k]
        IN Insert(Row("mb_api_individualtestresult", ids.log_test_id,
                      None, by,
             [test_name |-> test.test_name,
              test_passed |-> test.result = "PASSED",
              detail_message |->
                IF "detail_message" \in DOMAIN test
                THEN test.detail_message
                ELSE "Duration: " \o ToString(test.duration) \o "s"]))]
  \o SelectSeq([k \in 1..Len(data.memory) |->
                  LET memory == data.memory[k]
                  IN Insert(Row("mb_api_ram", ids.log_test_id, None, by,
                       [manufacturer |-> memory.manufacturer,
                        part_number |-> memory.part_number,
                        serial_number |->
                          IF memory.serial_number = None \/ memory.serial_number = Some("")
                          THEN Some("Unknown") ELSE memory.serial_number,
                        capacity |-> memory.capacity]))],
               LAMBDA statement :
                 /\ statement.row.values.capacity # None
                 /\ statement.row.values.capacity # Some(0))
  \o (IF data.storage = None THEN <<>>
      ELSE <<Insert(Row("mb_api_disk", ids.log_test_id, None, by,
               [model |-> data.storage.model,
                size |-> data.storage.size,
                serial_number |-> data.storage.serial_number,
                partitions_info |-> [size |-> data.storage.size,
                                     type |-> data.storage.device_type],
                unallocated |-> "0 GB"]))>>)

\* the statements up to the battery insert: after them data is changed
battery_statements(data) == IF data.battery = None THEN 0 ELSE 3

\* the statements before the insert of the log test
before_logtest(data) ==
  2 + (IF data.battery = None THEN 0 ELSE 1)
    + (IF data.display = None THEN 0 ELSE 1)

\* upload_to_database(data) of DiagnosticLogParser: the database after the
\* call, data after the call, and what the call returns or raises
SelfTest_ids(db) ==
  [battery_id |-> db.next_id["mb_api_battery"],
   monitor_id |-> db.next_id["mb_api_monitor"],
   log_test_id |-> db.next_id["mb_api_logtest"]]

\* the steps that go through when ok of them could: the TypeError of the
\* summary comes before the insert of the log test
SelfTest_done(data, ok) ==
  IF summary_raises(data) /\ ok > before_logtest(data)
  THEN before_logtest(data) ELSE ok

SelfTest_uploaded(db, data, appended, ids, statements, done, ok) ==
  [database |-> transaction(db, statements, done),
   given |-> data,
   data |-> IF done >= battery_statements(data) THEN appended ELSE data,
   rows |-> inserted(statements),
   ret |-> IF done > Len(statements) THEN Some(ids.log_test_id)
           ELSE IF done < ok THEN Raise("TypeError")
           ELSE Raise("Exception")]

SelfTest_upload_to_database(db, data, by, ok) ==
  SelfTest_uploaded(db, data, after_battery(data), SelfTest_ids(db),
                    SelfTest_statements(after_battery(data), SelfTest_ids(db),
                                        by),
                    SelfTest_done(data, ok), ok)

\* the steps of upload_to_database for the record: its statements and the
\* commit
SelfTest_steps(data) ==
  Len(SelfTest_statements(after_battery(data),
                          [battery_id |-> 0, monitor_id |-> 0,
                           log_test_id |-> 0], 0)) + 1

-----------------------------------------------------------------------------
(* Uploads on one connection of one of the three uploaders: the record a    *)
(* parser made of a document is given to upload_to_database, as the batch    *)
(* drivers call them                                                         *)

Uploaders ==
  {"LenovoLogDatabaseUploader", "DiagnosticLogParser", "Json uploader"}

MaxUploads == 3

RunModule(name, properties, resources, tests) ==
  [name |-> name,
   diagnostics |-> <<[properties |-> properties, resources |-> resources,
                      tests |-> tests]>>]

\* the documents of the runs: two runs of one machine, the later one without
\* battery and tests; a machine with one test name in two modules and a
\* test without a name; a document without iterations
JsonRunDocuments ==
  {[machine_serial_number |-> "PF3G44S9", machine_model |-> "ThinkPad",
    iterations |->
      <<[modules |->
           <<RunModule("BATTERY",
                       [DESIGN_CAPACITY |-> "57000mWh (3691mAh)",
                        FULL_CHARGE_CAPACITY |-> "50270mWh (3059mAh)",
                        CYCLE_COUNT |-> "120", SERIAL_NUMBER |-> "1234"],
                       <<>>,
                       <<JsonTest("HEALTH_TEST", "SUCCESS", "1")>>),
             RunModule("MEMORY", <<>>, <<Bank("4.000 GB")>>, <<>>)>>]>>],
   [machine_serial_number |-> "PF3G44S9", machine_model |-> "ThinkPad",
    iterations |->
      <<[modules |->
           <<RunModule("CPU", [CPU_MODEL |-> "Intel", CPU_CORES |-> "4"],
                       <<>>, <<>>)>>]>>],
   [machine_serial_number |-> "PF4CC0XY",
    iterations |->
      <<[modules |->
           <<RunModule("BATTERY", [CYCLE_COUNT |-> "42"], <<>>,
                       <<JsonTest("HEALTH_TEST", "FAILED", "")>>),
             RunModule("STORAGE", [MODEL |-> "SAMSUNG MZVL2512"], <<>>,
                       <<JsonTest("HEALTH_TEST", "SUCCESS", "2"),
                         [result |-> "SUCCESS"]>>)>>]>>],
   [machine_serial_number |-> "PF4CC0XY", iterations |-> <<>>]}

\* what parse_json_file makes of the documents
JsonRuns == {parse_json_file(json_data) : json_data \in JsonRunDocuments}

\* the records parse_all_data of LenovoLogDatabaseUploader makes of the logs
\* of the directory
UploaderRuns ==
  {Uploader_parse_all_data(f.lines, f.name, f.sidecar) :
     f \in {g \in DirectoryFiles : g.kind = "log"}}

\* logs for DiagnosticLogParser: a battery that fails the validation and a
\* test, the same machine with a good battery, a machine without battery,
\* a summary without the count of the failed tests
SelfTestDocuments ==
  {<<"SERIAL_NUMBER: PF3G44S9", "MACHINE_MODEL: ThinkPad", StartBattery,
     "DESIGN_CAPACITY: 57000mWh (3691mAh)",
     "FULL_CHARGE_CAPACITY: 50270mWh (3059mAh)", "CYCLE_COUNT: 900",
     "START TESTS", StartTest,
     "20250729T105546UTC STOP HEALTH_TEST PASSED 1 S", "STOP TESTS",
     EndBattery>>,
   <<"SERIAL_NUMBER: PF3G44S9", "MACHINE_MODEL: ThinkPad X1", StartBattery,
     "DESIGN_CAPACITY: 57000mWh (3691mAh)",
     "FULL_CHARGE_CAPACITY: 50270mWh (3059mAh)", "CYCLE_COUNT: 42",
     EndBattery>>,
   <<"SERIAL_NUMBER: PF4CC0XY", "START TESTS", StartTest,
     "20250729T105557UTC STOP HEALTH_TEST FAILED 12 S", "STOP TESTS",
     "+++ TEST SUMMARY", "FAILED_TESTS: 1", "--- TEST SUMMARY">>,
   <<"SERIAL_NUMBER: PF4CC0XY", "+++ TEST SUMMARY", "TOTAL_TESTS: 1",
     "--- TEST SUMMARY">>}

\* a display, memory modules and a disk as _parse_display, _parse_memory
\* and _parse_storage return them
SampleComponents ==
  [display |-> [name |-> Some("LEN41B0"), serial_number |-> Some("LEN41B0"),
                manufacturer_id |-> Some("LEN"),
                manufacturer_code |-> Some("LEN"),
                width |-> 1920, height |-> 1200,
                max_nits |-> "300.0", min_nits |-> "0.5"],
   memory |-> <<[manufacturer |-> Some("Samsung"),
                 part_number |-> Some("M471A5244CB0"),
                 serial_number |-> None, capacity |-> Some(8192),
                 device_locator |-> None, bank_locator |-> None],
                [manufacturer |-> None, part_number |-> None,
                 serial_number |-> None, capacity |-> None,
                 device_locator |-> None, bank_locator |-> None]>>,
   storage |-> [model |-> Some("SAMSUNG MZVL2512"), manufacturer |-> None,
                serial_number |-> Some("S4EWNX0R"), device_type |-> Some("NVMe"),
                size |-> Some("512 GB"), firmware_revision |-> None,
                temperature |-> None]]

\* the records, and those of the ThinkPad with the sample components
WithComponents(parsed) ==
  parsed
  \cup {[data EXCEPT !.display = SampleComponents.display,
                     !.memory = SampleComponents.memory,
                     !.storage = SampleComponents.storage] :
          data \in {r \in parsed : r.machine_model = Some("ThinkPad")}}

\* the dicts given to upload_to_database of DiagnosticLogParser: what
\* parse_log_file makes of the logs, and the first with the components of a
\* log that has display, memory and storage sections
SelfTestRuns ==
  WithComponents({SelfTest_record(JoinLines(d)) : d \in SelfTestDocuments})

InitUploads ==
  /\ file = NoFile
  /\ log_content = <<>>
  /\ filename = None
  /\ eval_in = NoInput
  /\ call = NoCall
  /\ objects = <<>>
  /\ records = <<>>
  /\ workers = <<>>
  /\ parsers = <<>>
  /\ schedule = <<>>
  /\ \E uploader \in Uploaders :
       database = [NoDatabase EXCEPT !.uploader = uploader]
  /\ uploads = <<>>
  /\ batch = NoBatch

\* the call has run: the database it leaves, and data, what became of
\* data, the rows the call was to write and the outcome in the history of
\* the calls
Uploaded(result) ==
  /\ Len(uploads) < MaxUploads
  /\ database' = result.database
  /\ uploads' = Append(uploads, [data |-> result.given, after |-> result.data,
                                 rows |-> result.rows, ret |-> result.ret])
  /\ call' = [op |-> "upload_to_database", ret |-> result.ret,
              section |-> <<>>]
  /\ UNCHANGED <<file, log_content, filename, eval_in, objects, records>>
  /\ UNCHANGED tasks
  /\ UNCHANGED batch

\* upload_to_database(data) of the JSON uploader, any of its statements or
\* the commit raising
JsonUpload ==
  /\ database.uploader = "Json uploader"
  /\ \E data \in JsonRuns :
       \E ok \in 0..(Len(Json_statements(data, 0, 0)) + 1) :
         Uploaded(Json_upload_to_database(database, data, Len(uploads) + 1, ok))

\* the steps of upload_to_database of LenovoLogDatabaseUploader for the
\* record: its statements and the commit
Uploader_steps(data) ==
  IF data = None THEN 0 ELSE Len(Uploader_statements(data, 0, 0)) + 1

\* upload_to_database(given) on an object whose parse_all_data gives parsed
UploaderUploadOf(given, parsed) ==
  \E ok \in 0..Uploader_steps(IF given = None THEN parsed ELSE given) :
    Uploaded(Uploader_upload_to_database(database, given, parsed,
                                         Len(uploads) + 1, ok))

\* upload_to_database(data) of LenovoLogDatabaseUploader for a record, or
\* without argument on an object that has loaded no log
UploaderUpload ==
  /\ database.uploader = "LenovoLogDatabaseUploader"
  /\ \E given \in UploaderRuns \cup {None} :
       UploaderUploadOf(given,
                        Uploader_parse_all_data(log_content,
                                                Get(filename, ""), NoSidecar))

\* upload_to_database(data) of DiagnosticLogParser, the text uploader
SelfTestUpload ==
  /\ database.uploader = "DiagnosticLogParser"
  /\ \E data \in SelfTestRuns :
       \E ok \in 0..SelfTest_steps(data) :
         Uploaded(SelfTest_upload_to_database(database, data,
                                              Len(uploads) + 1, ok))

NextUploads ==
  \/ UploaderUpload
  \/ SelfTestUpload
  \/ JsonUpload

SpecUploads == InitUploads /\ [][NextUploads]_vars

-----------------------------------------------------------------------------
(* The batch drivers: process_log_directory of LenovoLogDatabaseUploader,    *)
(* process_log_folder of DiagnosticLogParser and process_json_folder of the  *)
(* JSON uploader.  One step is one pass of the loop over the files.          *)

MaxBatch == 2

\* s.endswith(suffix)
EndsWith(s, suffix) ==
  Len(s) >= Len(suffix) /\ SubSeq(s, Len(s) - Len(suffix) + 1, Len(s)) = suffix

\* "Filter out obviously invalid files" of process_log_directory;
\* filename.lower() == 'log.log' is Upper(filename) = "LOG.LOG"
valid_log_files(log_files) ==
  SelectSeq(log_files,
            LAMBDA f : ~(\/ Upper(f.name) = "LOG.LOG"
                         \/ Len(f.name) < 10
                         \/ ~EndsWith(f.name, ".log")))

\* the files glob finds for process_log_directory: the logs of the
\* directory, one of them not readable, and a file called Log.log
UploaderBatchFiles ==
  DirectoryFiles \cup {SystemFile("Log.log", <<StartBattery, EndBattery>>,
                                  NoSidecar)}

\* the files glob finds for process_log_folder: the logs, a log with a test
\* whose time stamp has month 13, and a file that cannot be opened
SelfTestBatchFiles ==
  {[name |-> "run" \o ToString(Len(d)) \o ".log", kind |-> "log",
    lines |-> d] : d \in SelfTestDocuments}
  \cup {[name |-> "month13.log", kind |-> "log",
         lines |-> <<"SERIAL_NUMBER: PF3G44S9", "START TESTS",
                     "20251345T105545UTC START HEALTH_TEST",
                     "20251345T105546UTC STOP HEALTH_TEST PASSED 1 S",
                     "STOP TESTS">>],
        [name |-> "gone.log", kind |-> "missing", lines |-> <<>>]}

\* the files glob finds for process_json_folder: the documents, one with a
\* core count that is no number, and a file that cannot be opened
JsonBatchFiles ==
  {[name |-> d.machine_serial_number \o "-"
               \o ToString(Len(Get(PGet(d, "iterations"), <<>>)))
               \o ToString(Cardinality(DOMAIN d)) \o ".json",
    kind |-> "json", json_data |-> d] :
     d \in {j \in JsonRunDocuments : j.machine_serial_number = "PF4CC0XY"}}
  \cup {[name |-> "cores.json", kind |-> "json",
         json_data |->
           [machine_serial_number |-> "PF3G44S9",
            iterations |->
              <<[modules |->
                   <<RunModule("CPU", [CPU_CORES |-> "four"], <<>>,
                               <<>>)>>]>>]],
        [name |-> "gone.json", kind |-> "missing", json_data |-> <<>>]}

\* the lists of up to MaxBatch different files
RECURSIVE Selections(_, _)
Selections(files, n) ==
  IF n = 0 THEN {<<>>}
  ELSE Selections(files, n - 1)
       \cup {Append(s, f) : s \in {t \in Selections(files, n - 1) :
                                     Len(t) = n - 1},
                            f \in files}

Distinct(s) == \A i, j \in 1..Len(s) : s[i] = s[j] => i = j

BatchFiles(driver) ==
  IF driver = "LenovoLogDatabaseUploader" THEN UploaderBatchFiles
  ELSE IF driver = "DiagnosticLogParser" THEN SelfTestBatchFiles
  ELSE JsonBatchFiles

\* the list the loop of the driver runs over
selected_files(driver, found) ==
  IF driver = "LenovoLogDatabaseUploader" THEN valid_log_files(found)
  ELSE found

InitBatch ==
  /\ file = NoFile
  /\ log_content = <<>>
  /\ filename = None
  /\ eval_in = NoInput
  /\ call = NoCall
  /\ objects = <<>>
  /\ records = <<>>
  /\ workers = <<>>
  /\ parsers = <<>>
  /\ schedule = <<>>
  /\ uploads = <<>>
  /\ \E driver \in Uploaders :
       /\ database = [NoDatabase EXCEPT !.uploader = driver]
       /\ \E found \in {s \in Selections(BatchFiles(driver), MaxBatch) :
                          Distinct(s)} :
            batch = [driver |-> driver,
                     selected |-> selected_files(driver, found),
                     results |-> <<>>, at |-> 1, returned |-> FALSE]

\* nothing was uploaded for the file
NoUpload == [uploaded |-> FALSE]

\* upload_to_database was called with this result
Upload(result) == [uploaded |-> TRUE, result |-> result]

\* a loop that ends at the first file that fails
next_file_StopsAtFailure(at, status, n) ==
  IF status = "success" THEN at + 1 ELSE n + 1

\* "for log_file in log_files": the position after a pass, whatever its
\* status; n is the number of the files
next_file(at, status, n) == at + 1

\* one pass of the loop is over: the entry appended to results, and what the
\* upload did
FileDone(status, id, upload) ==
  /\ batch' = [batch EXCEPT
       !.results = Append(@, [file |-> batch.selected[batch.at].name,
                              status |-> status, id |-> id]),
       !.at = next_file(@, status, Len(batch.selected))]
  /\ IF upload.uploaded
     THEN /\ database' = upload.result.database
          /\ uploads' = Append(uploads,
                               [data |-> upload.result.given,
                                after |-> upload.result.data,
                                rows |-> upload.result.rows,
                                ret |-> upload.result.ret])
     ELSE UNCHANGED <<database, uploads>>
  /\ call' = [op |-> "loop", ret |-> id, section |-> <<>>]
  /\ UNCHANGED <<eval_in, objects, records>>
  /\ UNCHANGED tasks

\* the status and the id of the entry for the result of an upload
Entry(upload, failed) ==
  IF upload.uploaded /\ upload.result.ret \notin {None, Raise("Exception"),
                                                  Raise("TypeError")}
  THEN [status |-> "success", id |-> upload.result.ret]
  ELSE [status |-> failed, id |-> None]

InLoop(driver) ==
  /\ batch.driver = driver
  /\ ~batch.returned
  /\ batch.at <= Len(batch.selected)

\* the pass of the loop for a file whose record was uploaded
FileUploaded(upload, failed) ==
  FileDone(Entry(upload, failed).status, Entry(upload, failed).id, upload)

\* process_and_upload_log_file(log_file) after load_log_file, and the entry
\* process_log_directory appends: a load that fails, no data, an exception
\* of a parser, no serial number and an exception of the upload all give
\* None, entered as 'failed'; data is what parse_all_data gives
UploaderProcessed(f, data) ==
  IF \/ f.kind # "log"
     \/ data = None
     \/ data = Raise("ValueError")
  THEN FileDone("failed", None, NoUpload)
  ELSE IF data.system_info.machine_serial_number = ""
  THEN FileDone("failed", None, NoUpload)
  ELSE \E ok \in 0..Uploader_steps(data) :
         FileUploaded(Upload(Uploader_upload_to_database(
                               database, data, data, Len(uploads) + 1, ok)),
                      "failed")

\* load_log_file(f) in process_and_upload_log_file, and the rest of the pass
UploaderProcessFileAt(f, content) ==
  /\ file' = f
  /\ filename' = Some(f.name)
  /\ log_content' = content
  /\ UploaderProcessed(f, Uploader_parse_all_data(content, f.name,
                                                  f.sidecar))

\* one pass of the loop of process_log_directory
UploaderProcessFile ==
  /\ InLoop("LenovoLogDatabaseUploader")
  /\ UploaderProcessFileAt(batch.selected[batch.at],
                           IF batch.selected[batch.at].kind = "log"
                           THEN batch.selected[batch.at].lines
                           ELSE log_content)

\* the pass of process_log_folder for the file f; data is what parse_log_file
\* gives: every exception gives a 'failed' entry
SelfTestProcessed(f, data) ==
  /\ UNCHANGED <<file, filename, log_content>>
  /\ IF f.kind # "log" \/ data = Raise("ValueError")
     THEN FileDone("failed", None, NoUpload)
     ELSE \E ok \in 0..SelfTest_steps(data) :
            FileUploaded(Upload(SelfTest_upload_to_database(
                                  database, data, Len(uploads) + 1, ok)),
                         "failed")

\* one pass of the loop of process_log_folder: parse_log_file, then
\* upload_to_database
SelfTestProcessFile ==
  /\ InLoop("DiagnosticLogParser")
  /\ SelfTestProcessed(batch.selected[batch.at],
                       SelfTest_record(
                         JoinLines(batch.selected[batch.at].lines)))

\* the pass of process_json_folder for the file f; data is what
\* parse_json_file gives: every exception gives a 'failed' entry
JsonProcessed(f, data) ==
  /\ UNCHANGED <<file, filename, log_content>>
  /\ IF f.kind # "json" \/ data = Raise("ValueError")
     THEN FileDone("failed", None, NoUpload)
     ELSE \E ok \in 0..(Len(Json_statements(data, 0, 0)) + 1) :
            FileUploaded(Upload(Json_upload_to_database(
                                  database, data, Len(uploads) + 1, ok)),
                         "failed")

\* one pass of the loop of process_json_folder: parse_json_file, then
\* upload_to_database
JsonProcessFile ==
  /\ InLoop("Json uploader")
  /\ JsonProcessed(batch.selected[batch.at],
                   parse_json_file(batch.selected[batch.at].json_data))

\* "return results" after the loop
BatchReturns ==
  /\ batch.driver # "none"
  /\ ~batch.returned
  /\ batch.at > Len(batch.selected)
  /\ batch' = [batch EXCEPT !.returned = TRUE]
  /\ call' = [op |-> "return results", ret |-> None, section |-> <<>>]
  /\ UNCHANGED <<file, log_content, filename, eval_in, objects, records,
                 database, uploads>>
  /\ UNCHANGED tasks

NextBatch ==
  \/ UploaderProcessFile
  \/ SelfTestProcessFile
  \/ JsonProcessFile
  \/ BatchReturns

SpecBatch == InitBatch /\ [][NextBatch]_vars

-----------------------------------------------------------------------------
(* Properties of the test outcome parsers, checked under SpecOutcomes *)

\* the parsers whose outcomes carry a result code and the boolean passed
ResultParsers ==
  {"LenovoLogDatabaseUploader.parse_test_results",
   "LenovoLogParser.parse_test_results", "parse_test_results_from_json"}

TextResultParsers ==
  {"LenovoLogDatabaseUploader.parse_test_results",
   "LenovoLogParser.parse_test_results"}

\* the outcome list a call of one of ResultParsers returned
Outcomes == IF call.ret = None THEN <<>> ELSE call.ret.tests

\* C11 as stated: for every test outcome, passed is true if and only if the
\* result code is the success code of the format of the document: PASSED for
\* the text format, SUCCESS for the JSON format.
C11_PassedIffFormatSuccess ==
  /\ call.op \in ResultParsers
       => \A k \in 1..Len(Outcomes) :
            Outcomes[k].passed <=>
              Outcomes[k].result =
                (IF call.op \in TextResultParsers THEN "PASSED" ELSE "SUCCESS")
  /\ call.op = "DiagnosticLogParser._parse_json_test_results"
       /\ call.ret # Raise("ValueError")
       => \A k \in 1..Len(call.ret.tests) :
            call.ret.tests[k].status = "PASSED" <=>
              PGet(json_tests(file.modules)[k].test, "result") = Some("SUCCESS")

\* the success set of each parser
Accepted(op, result) ==
  IF op = "LenovoLogDatabaseUploader.parse_test_results"
  THEN result \in {"PASSED", "SUCCESS"}
  ELSE IF op = "LenovoLogParser.parse_test_results"
  THEN result = "PASSED"
  ELSE \E r \in {"SUCCESS", "PASSED", "PASS"} :
         /\ Len(r) = Len(result)
         /\ \A i \in 1..Len(r) :
              \/ Char(result, i) = Char(r, i)
              \/ /\ Contains(LowerChars, Char(result, i))
                 /\ Find(LowerChars, Char(result, i))
                      = Find(UpperChars, Char(r, i))

\* C11 amended: for every test outcome, passed is true if and only if the
\* result code is in the success set of the parser that produced it: PASSED
\* or SUCCESS for the text parser of LenovoLogDatabaseUploader, PASSED for
\* the text parser of LenovoLogParser, SUCCESS, PASSED or PASS in any letter
\* case for parse_test_results_from_json, and SUCCESS for the JSON parser of
\* DiagnosticLogParser, whose status is PASSED exactly then.
C11_PassedIffAccepted ==
  /\ call.op \in ResultParsers
       => \A k \in 1..Len(Outcomes) :
            Outcomes[k].passed <=> Accepted(call.op, Outcomes[k].result)
  /\ call.op = "DiagnosticLogParser._parse_json_test_results"
       /\ call.ret # Raise("ValueError")
       => \A k \in 1..Len(call.ret.tests) :
            call.ret.tests[k].status = "PASSED" <=>
              PGet(json_tests(file.modules)[k].test, "result") = Some("SUCCESS")

\* a text document whose SUCCESS line gave a passed outcome, and a JSON
\* document whose lower-case result gave one
C11_Witness ==
  \/ /\ call.op = "LenovoLogDatabaseUploader.parse_test_results"
     /\ \E k \in 1..Len(Outcomes) :
          Outcomes[k].result = "SUCCESS" /\ Outcomes[k].passed
  \/ /\ call.op = "parse_test_results_from_json"
     /\ \E k \in 1..Len(Outcomes) :
          Outcomes[k].result = "passed" /\ Outcomes[k].passed

\* the lines the text parser that was called has read
OutcomeLinesRead == log_content

\* the test name and result the parser op reads from a line, or None when
\* the line gives no outcome
LineOutcome(op, raw) ==
  LET line == Strip(raw)
      parts == Split(line)
      found == IF op = "LenovoLogDatabaseUploader.parse_test_results"
               THEN FindNameAndResult(parts, 1, None)
               ELSE LogParser_FindNameAndResult(parts, 1, None)
      token == \/ Contains(line, "PASSED") \/ Contains(line, "FAILED")
               \/ Contains(line, "NOT APPLICABLE")
               \/ /\ op = "LenovoLogDatabaseUploader.parse_test_results"
                  /\ Contains(line, "SUCCESS")
  IN IF /\ Contains(line, "STOP ") /\ token /\ Len(parts) >= 4
        /\ found.test_name_part # None /\ found.result_part # None
     THEN Some([name |-> found.test_name_part.v,
                result |-> found.result_part.v])
     ELSE None

\* the indexes of the lines that give an outcome, in increasing order
RECURSIVE OutcomeIndexes(_, _, _)
OutcomeIndexes(op, lines, i) ==
  IF i > Len(lines) THEN <<>>
  ELSE (IF LineOutcome(op, lines[i]) = None THEN <<>> ELSE <<i>>)
         \o OutcomeIndexes(op, lines, i + 1)

\* the name of the outcome of line i when the marker lines are the lines of
\* Markers(lines) and the keyword of a marker line is its third token
SectionedName(op, lines, i, markers) ==
  LET before == {j \in markers : j <= i}
      T == LineOutcome(op, lines[i]).v.name
  IN IF before = {} THEN T
     ELSE Split(Strip(lines[Max(before)]))[3] \o " - " \o T

\* the lines that hold a '+++' marker and a third token
MarkerLines(lines) ==
  {j \in 1..Len(lines) :
     Contains(lines[j], "+++") /\ Len(Split(Strip(lines[j]))) >= 3}

\* the lines that hold '+++ ' and at least four tokens
LongMarkerLines(lines) ==
  {j \in 1..Len(lines) :
     Contains(Strip(lines[j]), "+++ ") /\ Len(Split(Strip(lines[j]))) >= 4}

\* the outcomes read from lines come first in the list, one for each line
\* that gives an outcome; the outcomes the uploader derives from the battery
\* record follow them and have no line
NamesFollow(markers) ==
  call.op \in TextResultParsers /\ call.ret # None
  => LET at == OutcomeIndexes(call.op, OutcomeLinesRead, 1)
     IN /\ Len(Outcomes) >= Len(at)
        /\ \A k \in 1..Len(at) :
             Outcomes[k].test_name
               = SectionedName(call.op, OutcomeLinesRead, at[k], markers)

\* C12 as stated: each outcome read from a line is named "S - T", T the test
\* name and S the keyword (third token) of the most recent '+++' marker line
\* at or before the line of the test, whichever marker line that is; the
\* name is the bare T when no marker line precedes.
C12_NamedByLastMarker == NamesFollow(MarkerLines(OutcomeLinesRead))

\* C12 amended: each outcome read from a line is named "S - T", T the test
\* name and S the third token of the most recent line, at or before the line
\* of the test, that holds '+++ ' and has at least four tokens; the name is
\* the bare T when no such line precedes.
C12_NamedByLastLongMarker == NamesFollow(LongMarkerLines(OutcomeLinesRead))

\* a test named after the first of two markers because other lines, a short
\* marker among them, lie between the marker and the test
C12_Witness ==
  /\ call.op = "LenovoLogParser.parse_test_results"
  /\ Len(OutcomeLinesRead) = 3
  /\ OutcomeLinesRead[2] = SummaryMarker
  /\ Len(Outcomes) = 1
  /\ Outcomes[1].test_name = "BATTERY - HEALTH_TEST"

\* the result tokens the parser op accepts
AcceptedTokens(op) ==
  IF op = "LenovoLogDatabaseUploader.parse_test_results"
  THEN {"PASSED", "FAILED", "NOT APPLICABLE", "SUCCESS"}
  ELSE {"PASSED", "FAILED", "NOT APPLICABLE"}

\* the indexes of the lines that hold a STOP marker and an accepted token
StopLineIndexes(op, lines) ==
  {i \in 1..Len(lines) :
     /\ Contains(lines[i], "STOP ")
     /\ \E token \in AcceptedTokens(op) : Contains(lines[i], token)}

\* the k-th smallest member of a set of numbers
RECURSIVE Nth(_, _)
Nth(S, k) == IF k = 1 THEN Min(S) ELSE Nth(S \ {Min(S)}, k - 1)

\* the token that follows STOP in a line
AfterStop(line) ==
  LET parts == Split(line)
      at == {j \in 1..Len(parts) - 1 : parts[j] = "STOP"}
  IN IF at = {} THEN "" ELSE parts[Min(at) + 1]

\* the outcome list is the list of the lines of StopLineIndexes: one outcome
\* for each, named after the token that follows STOP, with the token of the
\* line as result
OneOutcomePerStopLine(op, lines, tests) ==
  LET stops == StopLineIndexes(op, lines)
  IN /\ Len(tests) = Cardinality(stops)
     /\ \A k \in 1..Len(tests) :
          LET line == lines[Nth(stops, k)]
              T == AfterStop(line)
          IN /\ Contains(line, tests[k].result)
             /\ tests[k].result \in AcceptedTokens(op)
             /\ tests[k].test_name \in {T} \cup {S \o " - " \o T :
                                                   S \in {"BATTERY", "CPU"}}

\* C13: every text line that holds a STOP marker together with one of the
\* accepted result tokens (PASSED, FAILED, NOT APPLICABLE, and SUCCESS where
\* accepted) gives exactly one test outcome, whose test name is the token
\* that follows STOP and whose result is that token.
C13_EveryStopLineOneOutcome ==
  /\ call.op \in TextResultParsers /\ call.ret # None
       => OneOutcomePerStopLine(call.op, log_content, call.ret.tests)
  /\ call.op = "DiagnosticLogParser._parse_test_results"
       /\ call.ret # Raise("ValueError")
       => OneOutcomePerStopLine(call.op, file.lines, call.ret.tests)

\* C14: the outcome list is in source order and holds one entry per test
\* found in the document: the k-th outcome is the outcome of the k-th line
\* (or JSON entry) that holds a test, whatever the timestamps of the lines,
\* and the list has no other entries.
C14_SourceOrder ==
  /\ call.op \in TextResultParsers /\ call.ret # None
       => LET at == OutcomeIndexes(call.op, log_content, 1)
          IN /\ Len(Outcomes) = Len(at)
             /\ \A k \in 1..Len(at) :
                  LET found == LineOutcome(call.op, log_content[at[k]]).v
                  IN /\ Outcomes[k].result = found.result
                     /\ \E S \in {"", "BATTERY - ", "CPU - "} :
                          Outcomes[k].test_name = S \o found.name
  /\ call.op = "parse_test_results_from_json"
       => LET entries == json_tests(file.modules)
          IN /\ Len(Outcomes) = Len(entries)
             /\ \A k \in 1..Len(entries) :
                  Outcomes[k].result
                    = Get(PGet(entries[k].test, "result"), "UNKNOWN")

-----------------------------------------------------------------------------
(* Properties of the system information parsers, checked under SpecSystem *)

SystemParsers ==
  {"LenovoLogDatabaseUploader.parse_system_info",
   "LenovoLogParser.parse_system_info"}

\* a call of a system information parser that returned a record
SystemInfoReturned == call.op \in SystemParsers /\ call.ret # None

SerialLabels ==
  {"SYSTEM_SERIAL_NUMBER:", "MACHINE_SERIAL_NUMBER:",
   "COMPUTER_SERIAL_NUMBER:", "SERIAL_NUMBER:"}

\* the values of the labeled serial fields of the lines, in line order
RECURSIVE LabeledSerials(_, _)
LabeledSerials(lines, i) ==
  IF i > Len(lines) THEN <<>>
  ELSE (IF \E label \in SerialLabels : StartsWith(Strip(lines[i]), label)
        THEN <<extract_field_value(Strip(lines[i]))>> ELSE <<>>)
         \o LabeledSerials(lines, i + 1)

\* the prefix of the file name before the first '-', when it is alphanumeric
\* and 6 to 8 characters long
ValidatedToken(name) ==
  LET prefix == BeforeHyphen(name)
  IN IF IsAlnum(prefix) /\ Len(prefix) >= 6 /\ Len(prefix) <= 8
     THEN Some(prefix) ELSE None

\* the serial the precedence rule gives
SerialByPrecedence(name, lines) ==
  IF ValidatedToken(name) # None THEN ValidatedToken(name).v
  ELSE IF LabeledSerials(lines, 1) # <<>> THEN LabeledSerials(lines, 1)[1]
  ELSE IF Contains(name, "-") THEN BeforeHyphen(name)
  ELSE "Unknown"

\* C15: the machine serial is the validated token of the file name when
\* there is one, otherwise a labeled serial field of the header lines,
\* otherwise the prefix of the file name before the first '-', otherwise
\* 'Unknown'; a validated token wins over a header serial that differs.
C15_SerialPrecedence ==
  SystemInfoReturned
  => call.ret.machine_serial_number
       = SerialByPrecedence(filename.v, log_content)

TypeByRule(lines, sidecar) ==
  LET codes == {i \in 1..Len(lines) : StartsWith(lines[i], "8S_CODE:")}
      code == extract_field_value(lines[Min(codes)])
  IN IF sidecar.exists /\ sidecar.loads
        /\ "machine_type_model" \in DOMAIN sidecar.data
     THEN sidecar.data.machine_type_model
     ELSE IF codes = {} THEN "N/A"
     ELSE IF StartsWith(code, "8SSB") THEN Slice(code, 4, 8)
     ELSE IF StartsWith(code, "8SS") THEN Slice(code, 3, 7)
     ELSE Slice(code, 0, 4)

\* C17: the machine type/model is the field of the companion JSON document
\* when the document supplies it, otherwise it is decoded from the 8S_CODE
\* field (8SSB: characters 4-8, 8SS: characters 3-7, other: the first 4),
\* and it is 'N/A' when neither source is available.
C17_MachineTypeModel ==
  SystemInfoReturned
  => call.ret.machine_type_model = TypeByRule(log_content, file.sidecar)

\* the run start and finish of the rule: the timestamp of the first '+++'
\* marker line that holds one, and of the last line that holds one; a time
\* is given as the text of the timestamp or formatted as day/month/year
TimesByRule(lines, start_time, finish_time) ==
  LET stamped == {i \in 1..Len(lines) : timestamp_search(lines[i]) # None}
      markers == {i \in stamped : Contains(lines[i], "+++")}
      Shows(time, i) ==
        \/ time = timestamp_search(lines[i]).v
        \/ time = shown_time(timestamp_search(lines[i]))
  IN /\ IF markers = {} THEN start_time = "Unknown"
        ELSE Shows(start_time, Min(markers))
     /\ IF stamped = {} THEN finish_time = "Unknown"
        ELSE Shows(finish_time, Max(stamped))

\* C18: the run start is the timestamp of the first marker line that holds a
\* timestamp and the run finish is the timestamp of the last line of the
\* document that holds a timestamp; each is resolved whenever such a line
\* exists.
C18_StartAndFinish ==
  SystemInfoReturned
  => TimesByRule(log_content, call.ret.start_time, call.ret.finish_time)

\* the seconds from 2025-01-01 00:00:00 to a later time t, counted month by
\* month
RECURSIVE DaysSince2025(_, _)
DaysSince2025(year, month) ==
  IF year = 2025 /\ month = 1 THEN 0
  ELSE IF month = 1 THEN DaysSince2025(year - 1, 12) + 31
  ELSE DaysSince2025(year, month - 1) + DaysInMonth(year, month - 1)

SecondsSince2025(t) ==
  ((DaysSince2025(t.year, t.month) + t.day - 1) * 24 + t.hour) * 3600
    + t.minute * 60 + t.second

\* C19: the elapsed duration is finish minus start in whole seconds when
\* both timestamps resolve and null when one of them does not: the field
\* test_elapsed_seconds of the uploader, and the text "<seconds> S" of the
\* JSON test summary.
C19_Elapsed ==
  /\ call.op = "LenovoLogDatabaseUploader.parse_system_info"
       /\ call.ret # None
       => LET start == call.ret.test_start_timestamp
              finish == call.ret.test_finish_timestamp
          IN call.ret.test_elapsed_seconds =
               IF start # None /\ finish # None
               THEN Some(SecondsSince2025(finish.v) - SecondsSince2025(start.v))
               ELSE None
  /\ call.op = "DiagnosticLogParser._parse_json_test_summary"
       => LET start ==
                _parse_json_timestamp(PGet(file.iteration, "start_time"))
              finish ==
                _parse_json_timestamp(PGet(file.iteration, "finish_time"))
          IN call.ret.elapsed_time =
               IF start # None /\ finish # None
               THEN Some(ToString(SecondsSince2025(finish.v)
                                    - SecondsSince2025(start.v)) \o " S")
               ELSE None

\* a run that starts on one day and finishes on the next
C19_Witness ==
  /\ call.op = "LenovoLogDatabaseUploader.parse_system_info"
  /\ call.ret # None
  /\ call.ret.test_start_timestamp # None
  /\ call.ret.test_finish_timestamp # None
  /\ call.ret.test_finish_timestamp.v.day
       = call.ret.test_start_timestamp.v.day + 1
  /\ call.ret.test_elapsed_seconds = Some(47058)

-----------------------------------------------------------------------------
(* Properties of the component record parsers, checked under SpecRecords *)

BatteryRecordParsers ==
  {"LenovoLogDatabaseUploader.parse_battery", "LenovoLogParser.parse_battery"}

CpuRecordParsers ==
  {"LenovoLogDatabaseUploader.parse_cpu", "LenovoLogParser.parse_cpu"}

MotherboardRecordParsers ==
  {"LenovoLogDatabaseUploader.parse_motherboard",
   "LenovoLogParser.parse_motherboard"}

\* no line of the section the call collected starts with the label
Missing(label) ==
  \A i \in 1..Len(call.section) : ~StartsWith(call.section[i], label)

\* no line of the section the call collected contains the word
Without(word) ==
  \A i \in 1..Len(call.section) : ~Contains(call.section[i], word)

\* the fields of a battery record, each missing field with its default
BatteryRecordComplete(record) ==
  /\ DOMAIN record =
       {"serial_number", "manufacturer", "design_capacity",
        "full_charge_capacity", "cycles", "health_percentage",
        "validation_status", "validation_message"}
  /\ Missing("SERIAL_NUMBER:") => record.serial_number = "Unknown"
  /\ Missing("MANUFACTURER:") => record.manufacturer = "Unknown"
  /\ Missing("CYCLE_COUNT:") => record.cycles = 0
  /\ Missing("DESIGN_CAPACITY:") =>
       record.design_capacity = "0 mWh" /\ record.health_percentage = None
  /\ Missing("FULL_CHARGE_CAPACITY:") =>
       record.full_charge_capacity = "0 mWh" /\ record.health_percentage = None

CpuRecordComplete(record) ==
  /\ DOMAIN record =
       {"model", "manufacturer", "cores", "threads", "current_speed",
        "cache_l1", "cache_l2", "cache_l3"}
  /\ Missing("CPU_MODEL:") => record.model = "Unknown"
  /\ Missing("CPU_VENDOR:") => record.manufacturer = "Unknown"
  /\ Missing("CPU_CORES:") => record.cores = 0
  /\ Missing("CPU_THREADS:") => record.threads = 0
  /\ Missing("CPU_CURRENT_SPEED:") => record.current_speed = "Unknown"
  /\ Missing("CPU_CACHE_L1:") => record.cache_l1 = "Unknown"
  /\ Missing("CPU_CACHE_L2:") => record.cache_l2 = "Unknown"
  /\ Missing("CPU_CACHE_L3:") => record.cache_l3 = "Unknown"

MotherboardRecordComplete(record) ==
  /\ DOMAIN record = {"usb_controllers", "pci_devices", "rtc_present"}
  /\ Missing("NUMBER_USB_HOST_CONTROLLERS:") /\ Without("CLASS:") =>
       record.usb_controllers = [text |-> "Unknown"]
  /\ Without("PCI_INDEX:") => record.pci_devices = [text |-> "Unknown"]
  /\ Missing("RTC_PRESENCE:") => record.rtc_present = "Unknown"

\* the call has returned a complete record of its kind
RecordComplete ==
  /\ call.op \in BatteryRecordParsers => BatteryRecordComplete(call.ret)
  /\ call.op \in CpuRecordParsers => CpuRecordComplete(call.ret)
  /\ call.op \in MotherboardRecordParsers => MotherboardRecordComplete(call.ret)

\* C20: every component record a parser returns carries the full, fixed set
\* of fields of its kind, whatever subset of fields the section contained; a
\* field missing from the section has its default ('Unknown', 0 or null), and
\* producing the record never raises: a call on a section that is not empty
\* ends with a complete record, never with an exception.
C20_FixedFieldsNeverRaise ==
  /\ call.op \in BatteryRecordParsers \cup CpuRecordParsers
                 \cup MotherboardRecordParsers
  /\ call.section # <<>>
  => /\ call.ret # Raise("ValueError")
     /\ call.ret # None
     /\ RecordComplete

-----------------------------------------------------------------------------
(* Properties of numeric coercion, checked under SpecNumeric *)

ComponentParsers ==
  {"LenovoLogDatabaseUploader.parse_battery", "LenovoLogParser.parse_battery",
   "DiagnosticLogParser._parse_battery",
   "DiagnosticLogParser._parse_json_battery",
   "DiagnosticLogParser._parse_json_cpu",
   "DiagnosticLogParser._parse_json_memory"}

\* the value of the key in the CPU module the JSON parser reads
CpuProperty(key) ==
  LET module == found_module(file.modules, "CPU")
  IN IF module = None THEN None
     ELSE PGet(module.v.diagnostics[1].properties, key)

\* a value that is present and is no number
NonNumeric(value) == value # None /\ value # Some("") /\ PyInt(value.v) = None

\* C21: a numeric field whose value is non-numeric text or is missing is
\* extracted as absent (or zero) and never makes the parse raise: no call of
\* a component parser ends with an exception, and the cores and threads of a
\* CPU record are absent or zero when their values are no numbers.
C21_CoercionNeverRaises ==
  call.op \in ComponentParsers
  => /\ call.ret # Raise("ValueError")
     /\ call.op = "DiagnosticLogParser._parse_json_cpu" /\ call.ret # None
        => /\ NonNumeric(CpuProperty("CPU_CORES"))
              => call.ret.cores \in {None, Some(0)}
           /\ NonNumeric(CpuProperty("CPU_THREADS"))
              => call.ret.threads \in {None, Some(0)}

-----------------------------------------------------------------------------
(* Properties of the synthetic battery tests, checked under SpecSynthetic *)

\* the synthetic battery tests have been appended: the last three outcomes
\* are the three battery tests
SyntheticAppended ==
  /\ call.op = "LenovoLogDatabaseUploader.parse_test_results"
  /\ call.ret # None
  /\ Len(call.ret.tests) >= 3
  /\ LET n == Len(call.ret.tests)
     IN /\ call.ret.tests[n - 2].test_name = "BATTERY - HEALTH_TEST"
        /\ call.ret.tests[n - 1].test_name = "BATTERY - HEALTH_PERCENTAGE_TEST"
        /\ call.ret.tests[n].test_name = "BATTERY - CYCLE_COUNT_TEST"

\* C29: whenever the synthetic battery tests are appended to the test
\* results, 'BATTERY - HEALTH_TEST' is passed exactly when
\* 'BATTERY - HEALTH_PERCENTAGE_TEST' and 'BATTERY - CYCLE_COUNT_TEST' are
\* both passed, for every battery section, one without a cycle count line
\* included.
C29_HealthTestIsConjunction ==
  SyntheticAppended
  => LET n == Len(call.ret.tests)
     IN call.ret.tests[n - 2].passed
          <=> (call.ret.tests[n - 1].passed /\ call.ret.tests[n].passed)

-----------------------------------------------------------------------------
(* Properties of one parser object used for several files, checked under   *)
(* SpecInstance                                                              *)

\* for every file of the directory, the record a new object of each class
\* returns when the file is loaded and parsed alone
RecordsAlone ==
  [f \in DirectoryFiles |->
     [uploader |-> Uploader_parse_all_data(f.lines, f.name, f.sidecar),
      parser |-> LogParser_parse_all_data(f.lines, f.sidecar)]]

RecordAlone(op, f) ==
  IF op = "LenovoLogDatabaseUploader.parse_all_data"
  THEN RecordsAlone[f].uploader
  ELSE RecordsAlone[f].parser

\* C23: after any sequence of load_log_file calls on one parser object, a
\* failing load included, parse_all_data never returns a record that
\* combines two documents: what it returns is the record of one file of the
\* directory parsed alone.
C23_OneDocumentPerRecord ==
  /\ call.op \in {"LenovoLogDatabaseUploader.parse_all_data",
                  "LenovoLogParser.parse_all_data"}
  /\ call.ret # None
  => \E f \in DirectoryFiles :
       f.kind = "log" /\ call.ret = RecordAlone(call.op, f)


\* two calls of the same parse_all_data for the same document: the same
\* file name, content and companion file, each time loaded without failure
SameDocument(a, b) ==
  /\ a.op = b.op
  /\ a.file = b.file
  /\ a.file.kind = "log"

-----------------------------------------------------------------------------
(* Properties of the worker tasks, checked under SpecWorkers *)

\* what a task gets for its file when nothing else runs: the record of the
\* file, or nothing when the file cannot be loaded
ResultAlone(task) ==
  IF task.file.kind = "log"
  THEN RecordAlone(task.class \o ".parse_all_data", task.file)
  ELSE None

-----------------------------------------------------------------------------
(* Properties of the JSON uploader's stored rows *)

\* the committed rows of a table, in the order they were written
RECURSIVE RowsOf(_, _)
RowsOf(rows, table) ==
  IF rows = <<>> THEN <<>>
  ELSE IF Head(rows).table = table
  THEN <<Head(rows)>> \o RowsOf(Tail(rows), table)
  ELSE RowsOf(Tail(rows), table)

ComponentTables ==
  {"battery", "display", "cpu", "memory", "storage", "motherboard",
   "test_results"}

\* the calls that returned an id
Returned == {k \in 1..Len(uploads) : uploads[k].ret \in {Some(i) : i \in 1..(MaxUploads + 1)}}

\* the last call that returned an id for the serial number
LatestFor(serial_number) ==
  Max({k \in Returned : uploads[k].data.serial_number = serial_number})

\* C30: with the JSON uploader, after uploads that all succeeded there is one
\* system_info row for every serial number uploaded, and every component and
\* test result row attached to it was written by the most recent upload for
\* that serial number, also when that run has no such component
C30_OnlyLatestRunStored ==
  (database.uploader = "Json uploader" /\ Returned = 1..Len(uploads)) =>
    \A k \in Returned :
      LET serial_number == uploads[k].data.serial_number
          system == {i \in 1..Len(database.committed) :
                       /\ database.committed[i].table = "system_info"
                       /\ database.committed[i].key = serial_number}
      IN /\ Cardinality(system) = 1
         /\ \A i \in 1..Len(database.committed) :
              LET row == database.committed[i]
              IN (/\ row.table \in ComponentTables
                  /\ row.system_id = uploads[k].ret.v)
                   => row.by = LatestFor(serial_number)

\* the name the specification gives a test outcome of a JSON document
composite_name(test) == test.component \o " - " \o test.test_name.v

\* C27: every tests entry of a JSON document becomes one test outcome, and the
\* name the outcome is stored under is "{module_name} - {test.name}": after an
\* upload of the JSON uploader that returned an id, the test_results rows it
\* wrote are one per tests entry of the document, in order, each under the
\* composite name when the entry has a name
C27_StoredUnderCompositeName ==
  (database.uploader = "Json uploader" /\ Len(uploads) \in Returned) =>
    LET data == uploads[Len(uploads)].data
        stored == SelectSeq(RowsOf(database.committed, "test_results"),
                            LAMBDA row : row.by = Len(uploads))
    IN /\ Len(stored) = Len(data.test_results)
       /\ \A k \in 1..Len(stored) :
            data.test_results[k].test_name # None =>
              stored[k].values.test_name = composite_name(data.test_results[k])

-----------------------------------------------------------------------------
(* Properties of upload_to_database *)

\* the row is among the committed rows
Committed(row) ==
  \E i \in 1..Len(database.committed) : database.committed[i] = row

\* every committed row was written by a call that returned an id
OnlyFromReturned ==
  \A i \in 1..Len(database.committed) : database.committed[i].by \in Returned

\* every row the call was to write is committed
StoredCompletely(k) ==
  \A j \in 1..Len(uploads[k].rows) : Committed(uploads[k].rows[j])

\* C28 as stated: after any sequence of uploads the committed rows come only
\* from uploads that returned an id, and every one of those runs is stored
\* completely
C28_EveryRunStoredCompletely ==
  /\ OnlyFromReturned
  /\ \A k \in Returned : StoredCompletely(k)

\* C28: upload_to_database is all-or-nothing.  After any sequence of uploads
\* on one connection the committed rows come only from uploads that
\* returned an id; an upload that has just returned an id is stored
\* completely, and with the uploader that appends a new system_info row for
\* every run, every run that returned an id stays stored completely
C28_AllOrNothing ==
  /\ OnlyFromReturned
  /\ Len(uploads) \in Returned => StoredCompletely(Len(uploads))
  /\ database.uploader = "LenovoLogDatabaseUploader" =>
       \A k \in Returned : StoredCompletely(k)

\* an upload whose statements ran and were rolled back, then one that
\* returned an id
C28_Witness ==
  /\ Len(uploads) = 2
  /\ uploads[1].ret = Raise("Exception")
  /\ 2 \in Returned
  /\ \E table \in ReturningTables : database.next_id[table] = 3
  /\ database.committed # <<>>
  /\ StoredCompletely(2)

\* C26: upload_to_database leaves the record it is given as it was, whether
\* it commits or raises
C26_RecordUnchanged ==
  \A k \in 1..Len(uploads) : uploads[k].after = uploads[k].data


-----------------------------------------------------------------------------
(* Properties of the batch drivers                                           *)

Succeeded == {i \in 1..Len(batch.results) : batch.results[i].status = "success"}

\* C25: the batch drivers process every selected file: the results hold one
\* entry for each file the loop has passed, in the order of the files, each
\* marked success, with the id of the upload, or failure, without one; a
\* file that fails does not end the loop, so the returned list has an entry
\* for every selected file, and the uploads that gave an id are the
\* entries marked success
C25_OneEntryPerFile ==
  /\ Len(batch.results) <= Len(batch.selected)
  /\ \A i \in 1..Len(batch.results) :
       /\ batch.results[i].file = batch.selected[i].name
       /\ batch.results[i].status \in {"success", "failed", "error"}
       /\ batch.results[i].status = "success" <=> batch.results[i].id # None
  /\ batch.returned => Len(batch.results) = Len(batch.selected)
  /\ batch.driver # "none" => Cardinality(Succeeded) = Cardinality(Returned)

\* a returned batch whose first file failed and whose second file was stored
C25_Witness ==
  /\ batch.returned
  /\ Len(batch.selected) = 2
  /\ batch.results[1].status = "failed"
  /\ batch.results[2].status = "success"
  /\ \E i \in 1..Len(database.committed) :
       database.committed[i].by = Len(uploads)

====
